---- MODULE Spec2Model ----
(***************************************************************************)
(* A model of the Java AST library (Package/index.js, java-lexer.js,      *)
(* java-parser.js, java-generator.js): source text -> JavaLexer -> tokens *)
(* -> JavaParser -> AST -> JavaGenerator -> source text.                  *)
(*                                                                         *)
(* Source text is a TLA+ string; a character is a string of length 1 and  *)
(* the JavaScript value null of the lexer's currentChar is the empty      *)
(* string.  Every parser routine is an operator from (tokens, current) to *)
(* a completion record [st, cur, v]: st = "ok" (returned v with           *)
(* this.current = cur), "throw" (a JavaParseError left the routine with   *)
(* this.current = cur) or "hang" (the routine entered a loop whose        *)
(* condition can never become false).                                     *)
(***************************************************************************)
EXTENDS Integers, Sequences, FiniteSets, TLC

VARIABLES
  given,    \* the caller's input: the fragments the source text is made of
  text,     \* the source text handed to the library
  pc,       \* the last operation that ended, and how it ended
  lexer,    \* the JavaLexer: pos, line, column
  tokens,   \* the JavaParser's this.tokens
  current,  \* the JavaParser's this.current
  result,   \* what the parse operation returned
  code,     \* what JavaGenerator.generate returned
  indentLevel, \* the indentLevel of the last JavaGenerator made
  result2   \* what parsing the generated text returned

vars == <<given, text, pc, lexer, tokens, current, result, code, indentLevel, result2>>

-----------------------------------------------------------------------------
(* Bounds of the explored inputs.                                          *)

MaxMods == 2
MaxMembers == 2
MaxStmts == 2

(* The deepest indentLevel a nested render is entered with.                 *)
MaxLevel == 2

-----------------------------------------------------------------------------
(* Generic helpers.                                                        *)

(* const name = value; ...: the value is computed once and Body reads it    *)
(* under its name.                                                          *)
With(value, Body(_)) == Body(value)

Null == [type |-> "null"]

IsNull(x) == x.type = "null"

RECURSIVE Repeat(_, _)
Repeat(s, n) ==
  IF n <= 0 THEN ""
  ELSE IF n = 1 THEN s
  ELSE Repeat(s, n \div 2) \o Repeat(s, n - (n \div 2))

RECURSIVE JoinStr(_, _)
JoinStr(strs, sep) ==
  IF Len(strs) = 0 THEN ""
  ELSE IF Len(strs) = 1 THEN strs[1]
  ELSE strs[1] \o sep \o JoinStr(Tail(strs), sep)

-----------------------------------------------------------------------------
(* java-lexer.js                                                           *)

Digits == {"0", "1", "2", "3", "4", "5", "6", "7", "8", "9"}
OctDigits == {"0", "1", "2", "3", "4", "5", "6", "7"}
HexDigits == Digits \cup {"a", "b", "c", "d", "e", "f", "A", "B", "C", "D", "E", "F"}
LowerLetters == {"a", "b", "c", "d", "e", "f", "g", "h", "i", "j", "k", "l", "m",
                 "n", "o", "p", "q", "r", "s", "t", "u", "v", "w", "x", "y", "z"}
UpperLetters == {"A", "B", "C", "D", "E", "F", "G", "H", "I", "J", "K", "L", "M",
                 "N", "O", "P", "Q", "R", "S", "T", "U", "V", "W", "X", "Y", "Z"}
IdentStart == LowerLetters \cup UpperLetters \cup {"_", "$"}
IdentPart == IdentStart \cup Digits
Blank == {" ", "\t", "\r"}

keywords ==
  [public |-> "PUBLIC", private |-> "PRIVATE", protected |-> "PROTECTED",
   static |-> "STATIC", final |-> "FINAL", abstract |-> "ABSTRACT",
   synchronized |-> "SYNCHRONIZED", native |-> "NATIVE", volatile |-> "VOLATILE",
   transient |-> "TRANSIENT",
   class |-> "CLASS", interface |-> "INTERFACE", enum |-> "ENUM",
   extends |-> "EXTENDS", implements |-> "IMPLEMENTS",
   import |-> "IMPORT", package |-> "PACKAGE",
   if |-> "IF", else |-> "ELSE", while |-> "WHILE", for |-> "FOR", do |-> "DO",
   switch |-> "SWITCH", case |-> "CASE", default |-> "DEFAULT", break |-> "BREAK",
   continue |-> "CONTINUE", return |-> "RETURN", try |-> "TRY", catch |-> "CATCH",
   finally |-> "FINALLY", throw |-> "THROW", throws |-> "THROWS",
   new |-> "NEW", this |-> "THIS", super |-> "SUPER", instanceof |-> "INSTANCEOF",
   void |-> "VOID", boolean |-> "BOOLEAN_TYPE", byte |-> "BYTE", short |-> "SHORT",
   int |-> "INT", long |-> "LONG", float |-> "FLOAT", double |-> "DOUBLE",
   char |-> "CHAR_TYPE",
   true |-> "BOOLEAN", false |-> "BOOLEAN", null |-> "NULL"]

(* new Token(type, value, line, column, position); value holds the text    *)
(* JavaScript's string conversion gives the token's value.                 *)
Token(type, value, line, column, position) ==
  [type |-> type, value |-> value, line |-> line, column |-> column,
   position |-> position]

(* new JavaLexer(text): pos 0, line 1, column 1.                           *)
NewLexer == [pos |-> 0, line |-> 1, column |-> 1]

(* text[pos], null ("") at and past the end of the text.                   *)
CharAt(t, pos) == IF pos >= Len(t) THEN "" ELSE SubSeq(t, pos + 1, pos + 1)

currentChar(t, s) == CharAt(t, s.pos)

lexPeek(t, s, offset) == CharAt(t, s.pos + offset)

lexAdvance(t, s) ==
  [pos |-> s.pos + 1,
   line |-> IF currentChar(t, s) = "\n" THEN s.line + 1 ELSE s.line,
   column |-> IF currentChar(t, s) = "\n" THEN 1 ELSE s.column + 1]

(* A lexer completion: st = "ok" with the token, or "throw" (JavaLexerError *)
(* carrying line, column and position of the lexer state s).               *)
LexOk(tok, s) == [st |-> "ok", tok |-> tok, s |-> s]
LexThrow(s) == [st |-> "throw", tok |-> Token("INVALID", "", s.line, s.column, s.pos), s |-> s]

RECURSIVE skipWhitespace(_, _)
skipWhitespace(t, s) ==
  IF currentChar(t, s) # "" /\ currentChar(t, s) \in Blank
  THEN skipWhitespace(t, lexAdvance(t, s))
  ELSE s

RECURSIVE skipToLineEnd(_, _)
skipToLineEnd(t, s) ==
  IF currentChar(t, s) # "" /\ currentChar(t, s) # "\n"
  THEN skipToLineEnd(t, lexAdvance(t, s))
  ELSE s

RECURSIVE skipToCommentEnd(_, _)
skipToCommentEnd(t, s) ==
  IF currentChar(t, s) = "" THEN s
  ELSE IF currentChar(t, s) = "*" /\ lexPeek(t, s, 1) = "/"
  THEN lexAdvance(t, lexAdvance(t, s))
  ELSE skipToCommentEnd(t, lexAdvance(t, s))

skipComment(t, s) ==
  IF currentChar(t, s) = "/" /\ lexPeek(t, s, 1) = "/" THEN skipToLineEnd(t, s)
  ELSE IF currentChar(t, s) = "/" /\ lexPeek(t, s, 1) = "*"
  THEN skipToCommentEnd(t, lexAdvance(t, lexAdvance(t, s)))
  ELSE s

(* What a loop of the lexer has read so far and where the lexer stands.    *)
Read(txt, s) == [txt |-> txt, s |-> s]

(* while (currentChar !== null && cls.test(currentChar))                   *)
(*   { result += currentChar; advance() }                                  *)
RECURSIVE readWhile(_, _, _)
readWhile(t, r, cls) ==
  IF currentChar(t, r.s) # "" /\ currentChar(t, r.s) \in cls
  THEN readWhile(t, Read(r.txt \o currentChar(t, r.s), lexAdvance(t, r.s)), cls)
  ELSE r

RECURSIVE StripLeadingZeros(_)
StripLeadingZeros(d) ==
  IF Len(d) > 1 /\ Head(d) = "0" THEN StripLeadingZeros(Tail(d)) ELSE d

RECURSIVE StripTrailingZeros(_)
StripTrailingZeros(d) ==
  IF Len(d) > 0 /\ SubSeq(d, Len(d), Len(d)) = "0"
  THEN StripTrailingZeros(SubSeq(d, 1, Len(d) - 1))
  ELSE d

RECURSIVE LeadingDigits(_)
LeadingDigits(d) ==
  IF Len(d) > 0 /\ Head(d) \in Digits THEN Head(d) \o LeadingDigits(Tail(d)) ELSE ""

(* String(parseInt(r, 10)) for r starting with a digit.                    *)
ParseIntText(r) == StripLeadingZeros(LeadingDigits(r))

(* String(parseFloat(intPart . fracPart)) without an exponent.             *)
ParseFloatText(intPart, fracPart) ==
  IF StripTrailingZeros(fracPart) = "" THEN StripLeadingZeros(intPart)
  ELSE StripLeadingZeros(intPart) \o "." \o StripTrailingZeros(fracPart)

readNumber(t, s0) ==
  IF currentChar(t, s0) = "0" /\ lexPeek(t, s0, 1) \in {"x", "X"}
  THEN (* hex: parseInt("0x..", 10) is 0 *)
       With(readWhile(t, Read("", lexAdvance(t, lexAdvance(t, s0))), HexDigits), LAMBDA h :
       With(IF currentChar(t, h.s) # "" /\ currentChar(t, h.s) \in {"l", "L", "f", "F", "d", "D"}
                  THEN lexAdvance(t, h.s) ELSE h.s, LAMBDA sfx :
          LexOk(Token("NUMBER", "0", s0.line, s0.column, s0.pos), sfx)))
  ELSE IF currentChar(t, s0) = "0" /\ lexPeek(t, s0, 1) # "" /\ lexPeek(t, s0, 1) \in OctDigits
  THEN With(readWhile(t, Read("", s0), OctDigits), LAMBDA o :
       With(IF currentChar(t, o.s) # "" /\ currentChar(t, o.s) \in {"l", "L", "f", "F", "d", "D"}
                  THEN lexAdvance(t, o.s) ELSE o.s, LAMBDA sfx :
          LexOk(Token("NUMBER", ParseIntText(o.txt), s0.line, s0.column, s0.pos), sfx)))
  ELSE With(readWhile(t, Read("", s0), Digits), LAMBDA i :
       With(currentChar(t, i.s) = "." /\ lexPeek(t, i.s, 1) \in Digits, LAMBDA hasDecimal :
       With(IF hasDecimal THEN readWhile(t, Read("", lexAdvance(t, i.s)), Digits)
                ELSE Read("", i.s), LAMBDA f :
       With(currentChar(t, f.s) \in {"e", "E"}, LAMBDA hasExp :
       With(IF hasExp THEN lexAdvance(t, f.s) ELSE f.s, LAMBDA e1 :
       With(IF hasExp /\ currentChar(t, e1) \in {"+", "-"} THEN lexAdvance(t, e1) ELSE e1, LAMBDA e2 :
       With(hasExp /\ ~(currentChar(t, e2) \in Digits), LAMBDA expBad :
       With(IF hasExp
                 THEN readWhile(t, Read(IF currentChar(t, e1) = "-" THEN "-" ELSE "", e2), Digits)
                 ELSE Read("", e2), LAMBDA e3 :
       With(IF currentChar(t, e3.s) # "" /\ currentChar(t, e3.s) \in {"l", "L", "f", "F", "d", "D"}
                  THEN lexAdvance(t, e3.s) ELSE e3.s, LAMBDA sfx :
       With(currentChar(t, e3.s) \in {"f", "F"}, LAMBDA isFloat :
           (* parseFloat when hasDecimal or isFloat, else parseInt(result, 10), which *)
           (* stops at the exponent letter; a float with an exponent is kept as     *)
           (* mantissa "e" exponent                                                  *)
       With(IF (hasDecimal \/ isFloat) /\ hasExp
                    THEN ParseFloatText(i.txt, f.txt) \o "e" \o e3.txt
                    ELSE IF hasDecimal \/ isFloat THEN ParseFloatText(i.txt, f.txt)
                    ELSE ParseIntText(i.txt), LAMBDA value :
          IF expBad THEN LexThrow(e2)
          ELSE LexOk(Token("NUMBER", value, s0.line, s0.column, s0.pos), sfx))))))))))))

(* The text a simple escape character decodes to.                          *)
EscapeValue(c) ==
  CASE c = "n" -> "\n"
    [] c = "t" -> "\t"
    [] c = "r" -> "\r"
    [] c = "b" -> "<BS>"
    [] c = "f" -> "\f"
    [] c = "\\" -> "\\"
    [] c = "'" -> "'"
    [] c = "\"" -> "\""
    [] c = "0" -> "<NUL>"
    [] OTHER -> c

(* The for loop of the \u escape: four hex digits or an error.             *)
RECURSIVE readUnicode(_, _, _, _)
readUnicode(t, s, i, acc) ==
  IF i = 4 THEN [st |-> "ok", txt |-> acc, s |-> s]
  ELSE IF currentChar(t, s) # "" /\ currentChar(t, s) \in HexDigits
  THEN readUnicode(t, lexAdvance(t, s), i + 1, acc \o currentChar(t, s))
  ELSE [st |-> "throw", txt |-> acc, s |-> s]

RECURSIVE readStringLoop(_, _, _, _)
readStringLoop(t, s, quote, acc) ==
  IF currentChar(t, s) = "" \/ currentChar(t, s) = quote
  THEN [st |-> "ok", txt |-> acc, s |-> s]
  ELSE IF currentChar(t, s) = "\\"
  THEN With(lexAdvance(t, s), LAMBDA s1 :
       With(currentChar(t, s1), LAMBDA c :
          IF c = "" THEN [st |-> "throw", txt |-> acc, s |-> s1]
          ELSE IF c \in {"n", "t", "r", "b", "f", "\\", "'", "\"", "0"}
          THEN readStringLoop(t, lexAdvance(t, s1), quote, acc \o EscapeValue(c))
          ELSE IF c = "u"
          THEN With(readUnicode(t, lexAdvance(t, s1), 0, ""), LAMBDA u :
                  IF u.st = "throw" THEN u
                  ELSE readStringLoop(t, u.s, quote, acc \o "<U+" \o u.txt \o ">"))
          ELSE readStringLoop(t, lexAdvance(t, s1), quote, acc \o c)))
  ELSE readStringLoop(t, lexAdvance(t, s), quote, acc \o currentChar(t, s))

(* readString without the error at the end of input: the literal read so   *)
(* far is the token.                                                        *)
readStringLenient(t, s0, quote) ==
  With(readStringLoop(t, lexAdvance(t, s0), quote, ""), LAMBDA r :
     IF r.st = "throw" THEN LexThrow(r.s)
     ELSE LexOk(Token(IF quote = "\"" THEN "STRING" ELSE "CHAR", r.txt,
                      s0.line, s0.column, s0.pos),
                lexAdvance(t, r.s)))

readString(t, s0, quote) ==
  With(readStringLoop(t, lexAdvance(t, s0), quote, ""), LAMBDA r :
     IF r.st = "throw" THEN LexThrow(r.s)
     ELSE IF currentChar(t, r.s) # quote THEN LexThrow(r.s)
     ELSE LexOk(Token(IF quote = "\"" THEN "STRING" ELSE "CHAR", r.txt,
                      s0.line, s0.column, s0.pos),
                lexAdvance(t, r.s)))

readIdentifier(t, s0) ==
  With(readWhile(t, Read("", s0), IdentPart), LAMBDA r :
  With(IF r.txt \in DOMAIN keywords THEN keywords[r.txt] ELSE "IDENTIFIER", LAMBDA tokenType :
     LexOk(Token(tokenType, r.txt, s0.line, s0.column, s0.pos), r.s)))

(* this.currentChar + (this.peek() || '') + (this.peek(2) || '')           *)
threeChar(t, s) == currentChar(t, s) \o lexPeek(t, s, 1) \o lexPeek(t, s, 2)

(* this.currentChar + (this.peek() || '')                                  *)
twoChar(t, s) == currentChar(t, s) \o lexPeek(t, s, 1)

(* The switch on twoChar: the token type, "" when no case matches.          *)
TwoCharType(tc) ==
  CASE tc = "++" -> "INCREMENT"
    [] tc = "--" -> "DECREMENT"
    [] tc = "+=" -> "PLUS_ASSIGN"
    [] tc = "-=" -> "MINUS_ASSIGN"
    [] tc = "*=" -> "MULTIPLY_ASSIGN"
    [] tc = "/=" -> "DIVIDE_ASSIGN"
    [] tc = "%=" -> "MODULO_ASSIGN"
    [] tc = "==" -> "EQUAL"
    [] tc = "!=" -> "NOT_EQUAL"
    [] tc = "<=" -> "LESS_EQUAL"
    [] tc = ">=" -> "GREATER_EQUAL"
    [] tc = "&&" -> "AND"
    [] tc = "||" -> "OR"
    [] tc = "<<" -> "LEFT_SHIFT"
    [] tc = ">>" -> "RIGHT_SHIFT"
    [] OTHER -> ""

(* The switch on currentChar: the token type, "" for the default case.     *)
OneCharType(c) ==
  CASE c = "+" -> "PLUS"
    [] c = "-" -> "MINUS"
    [] c = "*" -> "MULTIPLY"
    [] c = "/" -> "DIVIDE"
    [] c = "%" -> "MODULO"
    [] c = "=" -> "ASSIGN"
    [] c = "<" -> "LESS_THAN"
    [] c = ">" -> "GREATER_THAN"
    [] c = "!" -> "NOT"
    [] c = "&" -> "BITWISE_AND"
    [] c = "|" -> "BITWISE_OR"
    [] c = "^" -> "BITWISE_XOR"
    [] c = "~" -> "BITWISE_NOT"
    [] c = "(" -> "LPAREN"
    [] c = ")" -> "RPAREN"
    [] c = "{" -> "LBRACE"
    [] c = "}" -> "RBRACE"
    [] c = "[" -> "LBRACKET"
    [] c = "]" -> "RBRACKET"
    [] c = ";" -> "SEMICOLON"
    [] c = "," -> "COMMA"
    [] c = "." -> "DOT"
    [] c = ":" -> "COLON"
    [] c = "?" -> "QUESTION"
    [] c = "@" -> "AT"
    [] OTHER -> ""

(* operatorToken without the test for the three-character operator.       *)
operatorTokenNoThreeChar(t, s) ==
  IF currentChar(t, s) = "\n"
  THEN LexOk(Token("NEWLINE", "\n", s.line, s.column, s.pos), lexAdvance(t, s))
  ELSE IF TwoCharType(twoChar(t, s)) # ""
  THEN LexOk(Token(TwoCharType(twoChar(t, s)), twoChar(t, s), s.line, s.column, s.pos),
             lexAdvance(t, lexAdvance(t, s)))
  ELSE IF OneCharType(currentChar(t, s)) # ""
  THEN LexOk(Token(OneCharType(currentChar(t, s)), currentChar(t, s), s.line, s.column, s.pos),
             lexAdvance(t, s))
  ELSE LexThrow(s)

(* The rest of getNextToken's loop body: newline, then the three-, two-   *)
(* and one-character operators, then the error.                           *)
operatorToken(t, s) ==
  IF currentChar(t, s) = "\n"
  THEN LexOk(Token("NEWLINE", "\n", s.line, s.column, s.pos), lexAdvance(t, s))
  ELSE IF threeChar(t, s) = ">>>"
  THEN LexOk(Token("UNSIGNED_RIGHT_SHIFT", ">>>", s.line, s.column, s.pos),
             lexAdvance(t, lexAdvance(t, lexAdvance(t, s))))
  ELSE IF TwoCharType(twoChar(t, s)) # ""
  THEN LexOk(Token(TwoCharType(twoChar(t, s)), twoChar(t, s), s.line, s.column, s.pos),
             lexAdvance(t, lexAdvance(t, s)))
  ELSE IF OneCharType(currentChar(t, s)) # ""
  THEN LexOk(Token(OneCharType(currentChar(t, s)), currentChar(t, s), s.line, s.column, s.pos),
             lexAdvance(t, s))
  ELSE LexThrow(s)

(* while (this.currentChar !== null) { ... }: whitespace and comments     *)
(* are skipped and the loop goes on; every other character returns.  The  *)
(* tests exclude one another, so their order does not matter.             *)
RECURSIVE getNextToken(_, _)
getNextToken(t, s) ==
  IF Len(t) = 0 /\ s.pos = 0
  THEN (* text[0] of the empty text is undefined, which is not null and  *)
       (* which the identifier pattern matches as the text "undefined".  *)
       LexOk(Token("IDENTIFIER", "undefined", s.line, s.column, s.pos), lexAdvance(t, s))
  ELSE IF currentChar(t, s) = "" THEN LexOk(Token("EOF", "null", s.line, s.column, s.pos), s)
  ELSE IF currentChar(t, s) \in Blank THEN getNextToken(t, skipWhitespace(t, s))
  ELSE IF currentChar(t, s) = "/" /\ lexPeek(t, s, 1) \in {"/", "*"}
  THEN getNextToken(t, skipComment(t, s))
  ELSE IF currentChar(t, s) \in IdentStart THEN readIdentifier(t, s)
  ELSE IF currentChar(t, s) \in Digits THEN readNumber(t, s)
  ELSE IF currentChar(t, s) \in {"\"", "'"} THEN readString(t, s, currentChar(t, s))
  ELSE operatorToken(t, s)

(* One turn of the loop of tokenize(): the next token is read and, unless   *)
(* it is a NEWLINE, pushed; EOF ends the loop, an error leaves it.          *)
tokenizeStep(t, run) ==
  With(getNextToken(t, run.s), LAMBDA r :
     CASE r.st = "throw" -> [st |-> "throw", toks |-> run.toks, s |-> r.s]
       [] r.st # "throw" /\ r.tok.type = "EOF" ->
            [st |-> "ok", toks |-> Append(run.toks, r.tok), s |-> r.s]
       [] r.st # "throw" /\ r.tok.type = "NEWLINE" -> [run EXCEPT !.s = r.s]
       [] OTHER -> [run EXCEPT !.toks = Append(@, r.tok), !.s = r.s])

(* n turns of the loop, the second half run on the outcome of the first, so *)
(* that a long text is evaluated without deep nesting.                      *)
RECURSIVE tokenizeLoop(_, _, _)
tokenizeLoop(t, run, n) ==
  IF run.st # "run" \/ n = 0 THEN run
  ELSE IF n = 1 THEN tokenizeStep(t, run)
  ELSE tokenizeLoop(t, tokenizeLoop(t, run, n \div 2), n - (n \div 2))

(* tokenize(): tokens without NEWLINE, ending with EOF; [st, toks, s].  A   *)
(* turn of the loop reads at least one character or ends the loop (on the   *)
(* empty text the first turn reads the undefined currentChar), so           *)
(* Len(t) + 2 turns reach the end of every text.                            *)
tokenize(t, s) ==
  tokenizeLoop(t, [st |-> "run", toks |-> <<>>, s |-> s], Len(t) + 2)

-----------------------------------------------------------------------------
(* java-parser.js: parser state and primitives                              *)

maxStatements == 1000
maxTokens == 5000

Ok(cur, v) == [st |-> "ok", cur |-> cur, v |-> v]
Throw(cur) == [st |-> "throw", cur |-> cur, v |-> Null]
Hang(cur) == [st |-> "hang", cur |-> cur, v |-> Null]
(* An exception or a non-terminating loop of a callee leaves the caller too. *)
Fail(r) == [st |-> r.st, cur |-> r.cur, v |-> Null]

(* this.currentToken = this.tokens[this.current] *)
currentToken(ts, cur) == ts[cur + 1]

advance(ts, cur) == IF cur < Len(ts) - 1 THEN cur + 1 ELSE cur

peek(ts, cur, offset) ==
  IF cur + offset >= Len(ts) THEN ts[Len(ts)] ELSE ts[cur + offset + 1]

match(ts, cur, types) == currentToken(ts, cur).type \in types

(* if (type is open) count++; else if (type is close) count--;            *)
Count(type, open, close, count) ==
  IF type = open THEN count + 1
  ELSE IF type = close THEN count - 1
  ELSE count

consume(ts, cur, type) ==
  IF currentToken(ts, cur).type = type
  THEN Ok(advance(ts, cur), currentToken(ts, cur))
  ELSE Throw(cur)

TypeModifierStart == {"PUBLIC", "PRIVATE", "PROTECTED", "STATIC", "FINAL", "ABSTRACT"}
ModifierTypes == TypeModifierStart \cup {"SYNCHRONIZED", "NATIVE", "VOLATILE", "TRANSIENT"}
PrimitiveTypes == {"INT", "DOUBLE", "BOOLEAN_TYPE", "FLOAT", "LONG", "SHORT", "BYTE", "CHAR_TYPE"}

(* AST node constructors (the classes at the top of java-parser.js).        *)
Modifier(name, line, column) ==
  [type |-> "Modifier", name |-> name, line |-> line, column |-> column]

Annotation(name, line, column) ==
  [type |-> "Annotation", name |-> name, arguments |-> <<>>, line |-> line, column |-> column]

Type(name, isArray, arrayDimensions, line, column) ==
  [type |-> "Type", name |-> name, isArray |-> isArray,
   arrayDimensions |-> arrayDimensions, line |-> line, column |-> column]

(* Parameter's constructor overwrites the node tag this.type with the Type. *)
Parameter(name, type, isFinal, line, column) ==
  [type |-> type, name |-> name, isFinal |-> isFinal, line |-> line, column |-> column]

(* Block: statements and position, with the history of the parse that built  *)
(* it: trace holds one entry per iteration of block()'s loop, endCur is      *)
(* this.current when block() returned.                                       *)
Block(statements, line, column, trace, endCur) ==
  [type |-> "Block", statements |-> statements, line |-> line, column |-> column,
   trace |-> trace, endCur |-> endCur]

PackageDeclaration(packageName, line, column) ==
  [type |-> "PackageDeclaration", packageName |-> packageName, line |-> line, column |-> column]

ImportDeclaration(packageName, isStatic, isWildcard, line, column) ==
  [type |-> "ImportDeclaration", packageName |-> packageName, isStatic |-> isStatic,
   isWildcard |-> isWildcard, line |-> line, column |-> column]

CompilationUnit(packageDecl, imports, typeDeclarations) ==
  [type |-> "CompilationUnit", line |-> 0, column |-> 0,
   packageDeclaration |-> packageDecl, imports |-> imports,
   typeDeclarations |-> typeDeclarations]

ClassDeclaration(name, modifiers, superClass, interfaces, body, annotations, line, column) ==
  [type |-> "ClassDeclaration", name |-> name, modifiers |-> modifiers,
   superClass |-> superClass, interfaces |-> interfaces, body |-> body,
   annotations |-> annotations, line |-> line, column |-> column]

InterfaceDeclaration(name, modifiers, interfaces, body, annotations, typeParameters, line, column) ==
  [type |-> "InterfaceDeclaration", name |-> name, modifiers |-> modifiers,
   interfaces |-> interfaces, body |-> body, annotations |-> annotations,
   typeParameters |-> typeParameters, line |-> line, column |-> column]

EnumDeclaration(name, modifiers, interfaces, constants, body, annotations, line, column) ==
  [type |-> "EnumDeclaration", name |-> name, modifiers |-> modifiers,
   interfaces |-> interfaces, constants |-> constants, body |-> body,
   annotations |-> annotations, line |-> line, column |-> column]

MethodDeclaration(name, returnType, parameters, modifiers, body, annotations, line, column) ==
  [type |-> "MethodDeclaration", name |-> name, returnType |-> returnType,
   parameters |-> parameters, modifiers |-> modifiers, body |-> body,
   annotations |-> annotations, isConstructor |-> FALSE, line |-> line, column |-> column]

ConstructorDeclaration(name, parameters, modifiers, body, annotations, line, column) ==
  [type |-> "ConstructorDeclaration", name |-> name, parameters |-> parameters,
   modifiers |-> modifiers, body |-> body, annotations |-> annotations,
   isConstructor |-> TRUE, line |-> line, column |-> column]

Expression(toks, line, column) ==
  [type |-> "Expression", tokens |-> toks, line |-> line, column |-> column]

-----------------------------------------------------------------------------
(* java-parser.js: names, annotations, modifiers, types                     *)

RECURSIVE qualifiedNameLoop(_, _, _)
qualifiedNameLoop(ts, cur, name) ==
  IF match(ts, cur, {"DOT"}) /\ peek(ts, cur, 1).type = "IDENTIFIER"
  THEN qualifiedNameLoop(ts, advance(ts, advance(ts, cur)),
         name \o "." \o currentToken(ts, advance(ts, cur)).value)
  ELSE Ok(cur, name)

qualifiedName(ts, cur) ==
  With(consume(ts, cur, "IDENTIFIER"), LAMBDA r :
     IF r.st # "ok" THEN Fail(r) ELSE qualifiedNameLoop(ts, r.cur, r.v.value))

(* while (parenCount > 0 && !EOF) { count parens; advance } *)
RECURSIVE skipAnnotationArgs(_, _, _)
skipAnnotationArgs(ts, cur, parenCount) ==
  IF parenCount > 0 /\ ~match(ts, cur, {"EOF"})
  THEN skipAnnotationArgs(ts, advance(ts, cur),
         Count(currentToken(ts, cur).type, "LPAREN", "RPAREN", parenCount))
  ELSE cur

annotation(ts, cur) ==
  With(consume(ts, cur, "AT"), LAMBDA at :
     IF at.st # "ok" THEN Fail(at)
     ELSE With(consume(ts, at.cur, "IDENTIFIER"), LAMBDA nm :
             IF nm.st # "ok" THEN Fail(nm)
             ELSE Ok(IF match(ts, nm.cur, {"LPAREN"})
                     THEN skipAnnotationArgs(ts, advance(ts, nm.cur), 1)
                     ELSE nm.cur,
                     Annotation(nm.v.value, at.v.line, at.v.column))))

RECURSIVE parseAnnotationsLoop(_, _, _)
parseAnnotationsLoop(ts, cur, annotations) ==
  IF match(ts, cur, {"AT"})
  THEN With(annotation(ts, cur), LAMBDA a :
          IF a.st # "ok" THEN Fail(a)
          ELSE parseAnnotationsLoop(ts, a.cur, Append(annotations, a.v)))
  ELSE Ok(cur, annotations)

parseAnnotations(ts, cur) == parseAnnotationsLoop(ts, cur, <<>>)

RECURSIVE parseModifiersLoop(_, _, _)
parseModifiersLoop(ts, cur, modifiers) ==
  IF match(ts, cur, ModifierTypes)
  THEN parseModifiersLoop(ts, advance(ts, cur),
         Append(modifiers, Modifier(currentToken(ts, cur).value,
                                    currentToken(ts, cur).line,
                                    currentToken(ts, cur).column)))
  ELSE Ok(cur, modifiers)

parseModifiers(ts, cur) == parseModifiersLoop(ts, cur, <<>>)

(* The generic-argument loop of parseType: collects token values until the  *)
(* depth is back to 0 or EOF.                                               *)
RECURSIVE parseTypeGenerics(_, _, _, _)
parseTypeGenerics(ts, cur, genericDepth, genericTokens) ==
  IF genericDepth > 0 /\ ~match(ts, cur, {"EOF"})
  THEN parseTypeGenerics(ts, advance(ts, cur),
         Count(currentToken(ts, cur).type, "LESS_THAN", "GREATER_THAN", genericDepth),
         genericTokens \o currentToken(ts, cur).value)
  ELSE [cur |-> cur, txt |-> genericTokens]

RECURSIVE parseTypeArrays(_, _, _)
parseTypeArrays(ts, cur, arrayDimensions) ==
  IF match(ts, cur, {"LBRACKET"})
  THEN With(consume(ts, advance(ts, cur), "RBRACKET"), LAMBDA r :
          IF r.st # "ok" THEN Fail(r)
          ELSE parseTypeArrays(ts, r.cur, arrayDimensions + 1))
  ELSE Ok(cur, arrayDimensions)

parseType(ts, cur) ==
  With(currentToken(ts, cur), LAMBDA startToken :
  With(
        IF match(ts, cur, {"VOID"} \cup PrimitiveTypes)
        THEN Ok(advance(ts, cur), startToken.value)
        ELSE IF match(ts, cur, {"IDENTIFIER"})
        THEN With(qualifiedName(ts, cur), LAMBDA q :
                IF q.st # "ok" THEN Fail(q)
                ELSE IF match(ts, q.cur, {"LESS_THAN"})
                THEN With(parseTypeGenerics(ts, advance(ts, q.cur), 1, "<"), LAMBDA g :
                        Ok(g.cur, q.v \o g.txt))
                ELSE q)
        ELSE Throw(cur), LAMBDA base :
     IF base.st # "ok" THEN Fail(base)
     ELSE With(parseTypeArrays(ts, base.cur, 0), LAMBDA dims :
             IF dims.st # "ok" THEN Fail(dims)
             ELSE Ok(dims.cur, Type(base.v, dims.v > 0, dims.v, startToken.line, startToken.column)))))

(* The locals of expression() on entry: nothing pushed, all counts 0.       *)
expressionStart(cur) ==
  [cur |-> cur, tokens |-> <<>>, tokenCount |-> 0, parenCount |-> 0, braceCount |-> 0,
   bracketCount |-> 0, angleCount |-> 0, break |-> FALSE]

(* One turn of expression()'s loop on the locals e: the current token is    *)
(* pushed and counted, the parser advances, and the loop breaks when no     *)
(* count is open and the parser stands on ';', '}' or ','.                   *)
expressionTurn(ts, e) ==
  [cur |-> advance(ts, e.cur),
   tokens |-> Append(e.tokens, currentToken(ts, e.cur)),
   tokenCount |-> e.tokenCount + 1,
   parenCount |-> Count(currentToken(ts, e.cur).type, "LPAREN", "RPAREN", e.parenCount),
   braceCount |-> Count(currentToken(ts, e.cur).type, "LBRACE", "RBRACE", e.braceCount),
   bracketCount |-> Count(currentToken(ts, e.cur).type, "LBRACKET", "RBRACKET", e.bracketCount),
   angleCount |-> Count(currentToken(ts, e.cur).type, "LESS_THAN", "GREATER_THAN", e.angleCount),
   break |-> /\ Count(currentToken(ts, e.cur).type, "LPAREN", "RPAREN", e.parenCount) = 0
             /\ Count(currentToken(ts, e.cur).type, "LBRACE", "RBRACE", e.braceCount) = 0
             /\ Count(currentToken(ts, e.cur).type, "LBRACKET", "RBRACKET", e.bracketCount) = 0
             /\ Count(currentToken(ts, e.cur).type, "LESS_THAN", "GREATER_THAN", e.angleCount) = 0
             /\ match(ts, advance(ts, e.cur), {"SEMICOLON", "RBRACE", "COMMA"})]

(* while (!match(EOF) && tokenCount < maxTokens) { ...; if (...) break; }    *)
RECURSIVE expressionLoop(_, _)
expressionLoop(ts, e) ==
  IF e.break \/ match(ts, e.cur, {"EOF"}) \/ e.tokenCount >= maxTokens THEN e
  ELSE expressionLoop(ts, expressionTurn(ts, e))

(* expression(): an opaque token span.                                      *)
expression(ts, cur) ==
  With(expressionLoop(ts, expressionStart(cur)), LAMBDA e :
     Ok(e.cur, Expression(e.tokens, currentToken(ts, cur).line, currentToken(ts, cur).column)))

-----------------------------------------------------------------------------
(* java-parser.js: statements                                               *)

(* The lookahead loop over a generic-argument span, shared by classMember   *)
(* and isVariableDeclaration:                                               *)
(*   while (genericDepth > 0 && this.peek(lookahead)) { ...; lookahead++ }  *)
(* peek never returns a falsy value (past the end it returns the EOF        *)
(* token), so the loop ends only when genericDepth reaches 0.  Once the     *)
(* index is at or past EOF every later token is EOF, the depth cannot       *)
(* change any more and the loop runs forever: hang.                         *)
RECURSIVE skipGenericLookahead(_, _, _, _)
skipGenericLookahead(ts, cur, lookahead, genericDepth) ==
  IF genericDepth <= 0 THEN [hang |-> FALSE, lookahead |-> lookahead]
  ELSE IF cur + lookahead >= Len(ts) - 1 THEN [hang |-> TRUE, lookahead |-> lookahead]
  ELSE skipGenericLookahead(ts, cur, lookahead + 1,
         Count(peek(ts, cur, lookahead).type, "LESS_THAN", "GREATER_THAN", genericDepth))

(* while (peek(lookahead) is '[') { lookahead++; if (peek is ']') lookahead++ } *)
RECURSIVE skipArrayLookahead(_, _, _)
skipArrayLookahead(ts, cur, lookahead) ==
  IF peek(ts, cur, lookahead).type = "LBRACKET"
  THEN skipArrayLookahead(ts, cur,
         IF peek(ts, cur, lookahead + 1).type = "RBRACKET"
         THEN lookahead + 2 ELSE lookahead + 1)
  ELSE lookahead

(* The scan of an identifier-based type: [hang, lookahead].                 *)
typeLookahead(ts, cur) ==
  With(IF peek(ts, cur, 1).type = "LESS_THAN"
           THEN skipGenericLookahead(ts, cur, 2, 1)
           ELSE [hang |-> FALSE, lookahead |-> 1], LAMBDA g :
     IF g.hang THEN g
     ELSE [hang |-> FALSE, lookahead |-> skipArrayLookahead(ts, cur, g.lookahead)])

(* isVariableDeclaration(): Ok(cur, TRUE/FALSE), or hang.                   *)
isVariableDeclaration(ts, cur) ==
  IF match(ts, cur, PrimitiveTypes) THEN [st |-> "ok", cur |-> cur, v |-> TRUE]
  ELSE IF match(ts, cur, {"IDENTIFIER"})
  THEN With(typeLookahead(ts, cur), LAMBDA la :
          IF la.hang THEN [st |-> "hang", cur |-> cur, v |-> FALSE]
          ELSE [st |-> "ok", cur |-> cur,
                v |-> peek(ts, cur, la.lookahead).type = "IDENTIFIER"])
  ELSE [st |-> "ok", cur |-> cur, v |-> FALSE]

(* One declarator after the type: IDENTIFIER ('=' expression)? *)
variableDeclarator(ts, cur) ==
  With(consume(ts, cur, "IDENTIFIER"), LAMBDA nm :
     IF nm.st # "ok" THEN Fail(nm)
     ELSE IF match(ts, nm.cur, {"ASSIGN"})
     THEN With(expression(ts, advance(ts, nm.cur)), LAMBDA e :
             Ok(e.cur, [name |-> nm.v.value, initializer |-> e.v]))
     ELSE Ok(nm.cur, [name |-> nm.v.value, initializer |-> Null]))

RECURSIVE variableDeclaratorsLoop(_, _, _)
variableDeclaratorsLoop(ts, cur, variables) ==
  IF match(ts, cur, {"COMMA"})
  THEN With(variableDeclarator(ts, advance(ts, cur)), LAMBDA d :
          IF d.st # "ok" THEN Fail(d)
          ELSE variableDeclaratorsLoop(ts, d.cur, Append(variables, d.v)))
  ELSE Ok(cur, variables)

variableDeclaration(ts, cur) ==
  With(parseType(ts, cur), LAMBDA ty :
     IF ty.st # "ok" THEN Fail(ty)
     ELSE With(variableDeclarator(ts, ty.cur), LAMBDA first :
             IF first.st # "ok" THEN Fail(first)
             ELSE With(variableDeclaratorsLoop(ts, first.cur, <<first.v>>), LAMBDA rest :
                     IF rest.st # "ok" THEN Fail(rest)
                     ELSE Ok(IF match(ts, rest.cur, {"SEMICOLON"})
                             THEN advance(ts, rest.cur) ELSE rest.cur,
                             [type |-> "VariableDeclaration", variableType |-> ty.v,
                              variables |-> rest.v, line |-> ty.v.line,
                              column |-> ty.v.column]))))

variableDeclarationOrExpression(ts, cur) ==
  With(isVariableDeclaration(ts, cur), LAMBDA isDecl :
     IF isDecl.st # "ok" THEN Fail(isDecl)
     ELSE IF isDecl.v THEN variableDeclaration(ts, cur)
     ELSE With(expression(ts, cur), LAMBDA e :
          With(IF match(ts, e.cur, {"SEMICOLON"}) THEN advance(ts, e.cur) ELSE e.cur, LAMBDA after :
             IF Len(e.v.tokens) = 0 THEN Ok(after, Null)
             ELSE Ok(after, [type |-> "ExpressionStatement", expression |-> e.v,
                             line |-> currentToken(ts, cur).line,
                             column |-> currentToken(ts, cur).column]))))

returnStatement(ts, cur) ==
  With(currentToken(ts, cur), LAMBDA returnToken :
  With(advance(ts, cur), LAMBDA c1 :
  With(IF match(ts, c1, {"SEMICOLON"}) THEN Ok(c1, Null) ELSE expression(ts, c1), LAMBDA e :
  With(consume(ts, e.cur, "SEMICOLON"), LAMBDA semi :
     IF semi.st # "ok" THEN Fail(semi)
     ELSE Ok(semi.cur, [type |-> "ReturnStatement", expression |-> e.v,
                        line |-> returnToken.line, column |-> returnToken.column])))))

(* The locals of a loop that collects tokens: where the parser stands, the  *)
(* tokens pushed and the count of open parentheses.                         *)
Collected(cur, toks, parenCount) == [cur |-> cur, toks |-> toks, parenCount |-> parenCount]

(* The turn of such a loop: the current token is pushed and counted, the    *)
(* parser advances.                                                         *)
collectTurn(ts, c) ==
  Collected(advance(ts, c.cur), Append(c.toks, currentToken(ts, c.cur)),
            Count(currentToken(ts, c.cur).type, "LPAREN", "RPAREN", c.parenCount))

(* The condition loop of ifStatement and doWhileStatement: tokens up to the *)
(* ')' that closes the condition, nested parentheses counted.               *)
RECURSIVE nestedConditionLoop(_, _)
nestedConditionLoop(ts, c) ==
  IF match(ts, c.cur, {"EOF"}) \/ (match(ts, c.cur, {"RPAREN"}) /\ c.parenCount = 0) THEN c
  ELSE nestedConditionLoop(ts, collectTurn(ts, c))

(* The loop of whileStatement and of a catch parameter: tokens up to the    *)
(* first ')'.                                                               *)
RECURSIVE flatConditionLoop(_, _)
flatConditionLoop(ts, c) ==
  IF match(ts, c.cur, {"RPAREN", "EOF"}) THEN c
  ELSE flatConditionLoop(ts, collectTurn(ts, c))

(* The loop of forStatement: every token through the ')' that closes the    *)
(* header.                                                                  *)
RECURSIVE forHeaderLoop(_, _)
forHeaderLoop(ts, c) ==
  IF c.parenCount > 0 /\ ~match(ts, c.cur, {"EOF"})
  THEN forHeaderLoop(ts, collectTurn(ts, c))
  ELSE c

(* Skip to next statement boundary for error recovery: k holds the parser's *)
(* position and the two counts.  A '}' that closes more than was opened     *)
(* stops the loop where it is; a ';' outside every brace and parenthesis     *)
(* is consumed and stops it.                                                *)
RECURSIVE skipToStatementBoundaryLoop(_, _)
skipToStatementBoundaryLoop(ts, k) ==
  CASE match(ts, k.cur, {"EOF"}) -> k.cur
    [] match(ts, k.cur, {"RBRACE"}) /\ k.braceCount - 1 < 0 -> k.cur
    [] match(ts, k.cur, {"SEMICOLON"}) /\ k.braceCount = 0 /\ k.parenCount = 0 ->
         advance(ts, k.cur)
    [] OTHER ->
         skipToStatementBoundaryLoop(ts,
           [cur |-> advance(ts, k.cur),
            braceCount |-> Count(currentToken(ts, k.cur).type, "LBRACE", "RBRACE", k.braceCount),
            parenCount |-> Count(currentToken(ts, k.cur).type, "LPAREN", "RPAREN", k.parenCount)])

skipToStatementBoundary(ts, cur) ==
  skipToStatementBoundaryLoop(ts, [cur |-> cur, braceCount |-> 0, parenCount |-> 0])

RECURSIVE block(_, _)
RECURSIVE blockLoop(_, _)
RECURSIVE statement(_, _)
RECURSIVE bodyStatement(_, _)
RECURSIVE ifStatement(_, _)
RECURSIVE forStatement(_, _)
RECURSIVE whileStatement(_, _)
RECURSIVE doWhileStatement(_, _)
RECURSIVE tryStatement(_, _)
RECURSIVE catchLoop(_, _, _)

(* if (match(LBRACE)) block() else statement(): the body of if/else/loops.  *)
bodyStatement(ts, cur) ==
  IF match(ts, cur, {"LBRACE"}) THEN block(ts, cur) ELSE statement(ts, cur)

(* consume(RPAREN) after a collected condition; toks are the tokens of the  *)
(* condition.                                                               *)
closeCondition(ts, c) ==
  IF match(ts, c.cur, {"RPAREN"})
  THEN [st |-> "ok", cur |-> advance(ts, c.cur), toks |-> c.toks]
  ELSE [st |-> "throw", cur |-> c.cur, toks |-> c.toks]

(* ifStatement from the statement after the condition on.                   *)
ifBody(ts, ifToken, cond) ==
  IF cond.st # "ok" THEN Fail(cond)
  ELSE With(bodyStatement(ts, cond.cur), LAMBDA thenS :
          IF thenS.st # "ok" THEN Fail(thenS)
          ELSE With(IF match(ts, thenS.cur, {"ELSE"})
                    THEN bodyStatement(ts, advance(ts, thenS.cur))
                    ELSE Ok(thenS.cur, Null), LAMBDA elseS :
                  IF elseS.st # "ok" THEN Fail(elseS)
                  ELSE Ok(elseS.cur,
                          [type |-> "IfStatement",
                           condition |-> Expression(cond.toks, ifToken.line, ifToken.column),
                           thenStatement |-> thenS.v, elseStatement |-> elseS.v,
                           line |-> ifToken.line, column |-> ifToken.column])))

ifStatement(ts, cur) ==
  IF ~match(ts, advance(ts, cur), {"LPAREN"}) THEN Throw(advance(ts, cur))
  ELSE ifBody(ts, currentToken(ts, cur),
         closeCondition(ts,
           nestedConditionLoop(ts, Collected(advance(ts, advance(ts, cur)), <<>>, 0))))

forStatement(ts, cur) ==
  IF ~match(ts, advance(ts, cur), {"LPAREN"}) THEN Throw(advance(ts, cur))
  ELSE With(forHeaderLoop(ts,
              Collected(advance(ts, advance(ts, cur)),
                <<currentToken(ts, cur),
                  Token("LPAREN", "(", currentToken(ts, cur).line,
                        currentToken(ts, cur).column, 0)>>, 1)), LAMBDA hdr :
       With(bodyStatement(ts, hdr.cur), LAMBDA body :
          IF body.st # "ok" THEN Fail(body)
          ELSE Ok(body.cur, [type |-> "ForStatement", body |-> body.v, tokens |-> hdr.toks,
                             line |-> currentToken(ts, cur).line,
                             column |-> currentToken(ts, cur).column])))

(* whileStatement from the body on.                                         *)
whileBody(ts, whileToken, cond) ==
  IF cond.st # "ok" THEN Fail(cond)
  ELSE With(bodyStatement(ts, cond.cur), LAMBDA body :
          IF body.st # "ok" THEN Fail(body)
          ELSE Ok(body.cur,
                  [type |-> "WhileStatement",
                   condition |-> Expression(cond.toks, whileToken.line, whileToken.column),
                   body |-> body.v,
                   line |-> whileToken.line, column |-> whileToken.column]))

whileStatement(ts, cur) ==
  IF ~match(ts, advance(ts, cur), {"LPAREN"}) THEN Throw(advance(ts, cur))
  ELSE whileBody(ts, currentToken(ts, cur),
         closeCondition(ts,
           flatConditionLoop(ts, Collected(advance(ts, advance(ts, cur)), <<>>, 0))))

(* doWhileStatement after its body: 'while' '(' condition ')' ';'.          *)
doWhileEnd(ts, doToken, body) ==
  With(consume(ts, body.cur, "WHILE"), LAMBDA wh :
     IF wh.st # "ok" THEN Fail(wh)
     ELSE With(consume(ts, wh.cur, "LPAREN"), LAMBDA lp :
             IF lp.st # "ok" THEN Fail(lp)
             ELSE With(closeCondition(ts,
                         nestedConditionLoop(ts, Collected(lp.cur, <<>>, 0))), LAMBDA cond :
                     IF cond.st # "ok" THEN Fail(cond)
                     ELSE With(consume(ts, cond.cur, "SEMICOLON"), LAMBDA semi :
                             IF semi.st # "ok" THEN Fail(semi)
                             ELSE Ok(semi.cur,
                                    [type |-> "DoWhileStatement", body |-> body.v,
                                     condition |-> Expression(cond.toks, doToken.line, doToken.column),
                                     line |-> doToken.line, column |-> doToken.column])))))

doWhileStatement(ts, cur) ==
  With(bodyStatement(ts, advance(ts, cur)), LAMBDA body :
     IF body.st # "ok" THEN Fail(body)
     ELSE doWhileEnd(ts, currentToken(ts, cur), body))

(* A catch clause from its block on, and the clauses after it.              *)
catchBody(ts, catchToken, param, catchBlocks) ==
  IF param.st # "ok" THEN Fail(param)
  ELSE With(block(ts, param.cur), LAMBDA body :
          IF body.st # "ok" THEN Fail(body)
          ELSE catchLoop(ts, body.cur,
                 Append(catchBlocks,
                   [type |-> "CatchBlock",
                    parameter |-> Expression(param.toks, catchToken.line, catchToken.column),
                    body |-> body.v,
                    line |-> catchToken.line, column |-> catchToken.column])))

catchLoop(ts, cur, catchBlocks) ==
  IF ~match(ts, cur, {"CATCH"}) THEN Ok(cur, catchBlocks)
  ELSE IF ~match(ts, advance(ts, cur), {"LPAREN"}) THEN Throw(advance(ts, cur))
  ELSE catchBody(ts, currentToken(ts, cur),
         closeCondition(ts,
           flatConditionLoop(ts, Collected(advance(ts, advance(ts, cur)), <<>>, 0))),
         catchBlocks)

tryStatement(ts, cur) ==
  With(block(ts, advance(ts, cur)), LAMBDA tryBlock :
     IF tryBlock.st # "ok" THEN Fail(tryBlock)
     ELSE With(catchLoop(ts, tryBlock.cur, <<>>), LAMBDA catches :
             IF catches.st # "ok" THEN Fail(catches)
             ELSE With(IF match(ts, catches.cur, {"FINALLY"})
                       THEN block(ts, advance(ts, catches.cur))
                       ELSE Ok(catches.cur, Null), LAMBDA fin :
                     IF fin.st # "ok" THEN Fail(fin)
                     ELSE Ok(fin.cur, [type |-> "TryStatement", tryBlock |-> tryBlock.v,
                                       catchBlocks |-> catches.v, finallyBlock |-> fin.v,
                                       line |-> currentToken(ts, cur).line,
                                       column |-> currentToken(ts, cur).column]))))

(* if (this.current === startPos) this.advance(): a statement that read     *)
(* nothing still moves the parser on.                                       *)
progressed(ts, startPos, r) ==
  IF r.st # "ok" THEN r
  ELSE Ok(IF r.cur = startPos THEN advance(ts, startPos) ELSE r.cur, r.v)

statement(ts, cur) ==
  CASE match(ts, cur, {"SEMICOLON"}) -> Ok(advance(ts, cur), Null)
    [] match(ts, cur, {"RETURN"}) -> returnStatement(ts, cur)
    [] match(ts, cur, {"FOR"}) -> forStatement(ts, cur)
    [] match(ts, cur, {"IF"}) -> ifStatement(ts, cur)
    [] match(ts, cur, {"WHILE"}) -> whileStatement(ts, cur)
    [] match(ts, cur, {"DO"}) -> doWhileStatement(ts, cur)
    [] match(ts, cur, {"TRY"}) -> tryStatement(ts, cur)
    [] OTHER -> progressed(ts, cur, variableDeclarationOrExpression(ts, cur))

(* The locals of block()'s loop, with how the loop ended (st) and, in       *)
(* trace, one entry per turn: where the statement began (from), where the   *)
(* parser stood when it returned or threw (at), where the loop went on      *)
(* (to) and whether it threw (fault).                                       *)
blockStart(cur) ==
  [st |-> "ok", cur |-> cur, statements |-> <<>>, statementCount |-> 0, trace |-> <<>>]

(* One turn of the loop, r being what statement() did: a statement that     *)
(* is not null is pushed; a JavaParseError is caught and                    *)
(* skipToStatementBoundary runs from where the parser stood.                *)
blockTurn(ts, b, r) ==
  CASE r.st = "hang" -> [b EXCEPT !.st = "hang", !.cur = r.cur]
    [] r.st = "ok" ->
         [st |-> "ok", cur |-> r.cur,
          statements |-> IF IsNull(r.v) THEN b.statements ELSE Append(b.statements, r.v),
          statementCount |-> b.statementCount + 1,
          trace |-> Append(b.trace, [fault |-> FALSE, from |-> b.cur, at |-> r.cur, to |-> r.cur])]
    [] OTHER ->
         [st |-> "ok", cur |-> skipToStatementBoundary(ts, r.cur),
          statements |-> b.statements,
          statementCount |-> b.statementCount + 1,
          trace |-> Append(b.trace, [fault |-> TRUE, from |-> b.cur, at |-> r.cur,
                                     to |-> skipToStatementBoundary(ts, r.cur)])]

(* !match(RBRACE) && !match(EOF) && statementCount < maxStatements          *)
blockGoesOn(ts, b) ==
  b.st = "ok" /\ ~match(ts, b.cur, {"RBRACE", "EOF"}) /\ b.statementCount < maxStatements

(* Up to n turns of the loop, the second half run on the outcome of the     *)
(* first, so that a long block is evaluated without deep nesting.           *)
RECURSIVE blockTurns(_, _, _)
blockTurns(ts, b, n) ==
  IF ~blockGoesOn(ts, b) THEN b
  ELSE IF n = 1 THEN blockTurn(ts, b, statement(ts, b.cur))
  ELSE blockTurns(ts, blockTurns(ts, b, n \div 2), n - (n \div 2))

(* The while loop, as runs of 1, 2, 4, ... turns until its condition fails. *)
RECURSIVE blockRuns(_, _, _)
blockRuns(ts, b, n) ==
  IF blockGoesOn(ts, b) THEN blockRuns(ts, blockTurns(ts, b, n), 2 * n) ELSE b

blockLoop(ts, b) == blockRuns(ts, b, 1)

(* block() after its loop: the Block at EOF, else consume(RBRACE).          *)
blockEnd(ts, lbrace, body) ==
  CASE body.st # "ok" -> Fail(body)
    [] body.st = "ok" /\ match(ts, body.cur, {"EOF"}) ->
         Ok(body.cur, Block(body.statements, lbrace.line, lbrace.column,
                            body.trace, body.cur))
    [] body.st = "ok" /\ match(ts, body.cur, {"RBRACE"}) ->
         Ok(advance(ts, body.cur),
            Block(body.statements, lbrace.line, lbrace.column,
                  body.trace, advance(ts, body.cur)))
    [] OTHER -> Throw(body.cur)

block(ts, cur) ==
  IF ~match(ts, cur, {"LBRACE"}) THEN Throw(cur)
  ELSE blockEnd(ts, currentToken(ts, cur), blockLoop(ts, blockStart(advance(ts, cur))))

methodBody(ts, cur) == block(ts, cur)

-----------------------------------------------------------------------------
(* java-parser.js: members of a type body                                   *)

parameter(ts, cur) ==
  With(parseAnnotationsLoop(ts, cur, <<>>), LAMBDA annos :
     IF annos.st # "ok" THEN Fail(annos)
     ELSE With(match(ts, annos.cur, {"FINAL"}), LAMBDA isFinal :
          With(IF isFinal THEN advance(ts, annos.cur) ELSE annos.cur, LAMBDA c1 :
          With(parseType(ts, c1), LAMBDA ty :
             IF ty.st # "ok" THEN Fail(ty)
             ELSE With(consume(ts, ty.cur, "IDENTIFIER"), LAMBDA nm :
                     IF nm.st # "ok" THEN Fail(nm)
                     ELSE Ok(nm.cur, Parameter(nm.v.value, ty.v, isFinal, nm.v.line, nm.v.column)))))))

RECURSIVE parameterListLoop(_, _, _)
parameterListLoop(ts, cur, parameters) ==
  IF match(ts, cur, {"COMMA"})
  THEN With(parameter(ts, advance(ts, cur)), LAMBDA pr :
          IF pr.st # "ok" THEN Fail(pr)
          ELSE parameterListLoop(ts, pr.cur, Append(parameters, pr.v)))
  ELSE Ok(cur, parameters)

parameterList(ts, cur) ==
  IF ~match(ts, cur, {"RPAREN"})
  THEN With(parameter(ts, cur), LAMBDA pr :
          IF pr.st # "ok" THEN Fail(pr)
          ELSE parameterListLoop(ts, pr.cur, <<pr.v>>))
  ELSE Ok(cur, <<>>)

(* while (match(IDENTIFIER)) { advance; if (match(COMMA)) advance; else break } *)
RECURSIVE skipExceptionTypes(_, _)
skipExceptionTypes(ts, cur) ==
  IF match(ts, cur, {"IDENTIFIER"})
  THEN IF match(ts, advance(ts, cur), {"COMMA"})
       THEN skipExceptionTypes(ts, advance(ts, advance(ts, cur)))
       ELSE advance(ts, cur)
  ELSE cur

skipThrows(ts, cur) ==
  IF match(ts, cur, {"THROWS"}) THEN skipExceptionTypes(ts, advance(ts, cur)) ELSE cur

(* '(' parameterList ')' throws?: shared by methods and constructors.       *)
signatureTail(ts, cur) ==
  With(consume(ts, cur, "LPAREN"), LAMBDA lp :
     IF lp.st # "ok" THEN Fail(lp)
     ELSE With(parameterList(ts, lp.cur), LAMBDA ps :
             IF ps.st # "ok" THEN Fail(ps)
             ELSE With(consume(ts, ps.cur, "RPAREN"), LAMBDA rp :
                     IF rp.st # "ok" THEN Fail(rp)
                     ELSE Ok(skipThrows(ts, rp.cur), ps.v))))

(* methodDeclaration up to its body: the return type, the name token and   *)
(* the parameters.                                                          *)
methodHeader(ts, cur) ==
  With(parseType(ts, cur), LAMBDA returnType :
     IF returnType.st # "ok" THEN Fail(returnType)
     ELSE With(consume(ts, returnType.cur, "IDENTIFIER"), LAMBDA nameToken :
             IF nameToken.st # "ok" THEN Fail(nameToken)
             ELSE With(signatureTail(ts, nameToken.cur), LAMBDA sig :
                     IF sig.st # "ok" THEN Fail(sig)
                     ELSE Ok(sig.cur, [returnType |-> returnType.v,
                                       nameToken |-> nameToken.v,
                                       parameters |-> sig.v]))))

(* methodDeclaration from its body on: methodBody() at '{', else           *)
(* consume(SEMICOLON) and a null body.                                      *)
methodFrom(ts, h, modifiers, annotations) ==
  IF h.st # "ok" THEN Fail(h)
  ELSE With(CASE match(ts, h.cur, {"LBRACE"}) -> methodBody(ts, h.cur)
              [] match(ts, h.cur, {"SEMICOLON"}) -> Ok(advance(ts, h.cur), Null)
              [] OTHER -> Throw(h.cur), LAMBDA body :
          IF body.st # "ok" THEN Fail(body)
          ELSE Ok(body.cur,
                  MethodDeclaration(h.v.nameToken.value, h.v.returnType, h.v.parameters,
                    modifiers, body.v, annotations,
                    h.v.nameToken.line, h.v.nameToken.column)))

methodDeclaration(ts, cur, modifiers, annotations) ==
  methodFrom(ts, methodHeader(ts, cur), modifiers, annotations)

(* constructorDeclaration from its body on.                                 *)
constructorFrom(ts, nameToken, sig, modifiers, annotations) ==
  IF sig.st # "ok" THEN Fail(sig)
  ELSE With(methodBody(ts, sig.cur), LAMBDA body :
          IF body.st # "ok" THEN Fail(body)
          ELSE Ok(body.cur,
                  ConstructorDeclaration(nameToken.value, sig.v, modifiers,
                    body.v, annotations, nameToken.line, nameToken.column)))

constructorDeclaration(ts, cur, modifiers, annotations) ==
  IF ~match(ts, cur, {"IDENTIFIER"}) THEN Throw(cur)
  ELSE constructorFrom(ts, currentToken(ts, cur), signatureTail(ts, advance(ts, cur)),
                       modifiers, annotations)

fieldDeclaration(ts, cur, modifiers, annotations) ==
  With(parseType(ts, cur), LAMBDA fieldType :
     IF fieldType.st # "ok" THEN Fail(fieldType)
     ELSE With(consume(ts, fieldType.cur, "IDENTIFIER"), LAMBDA fieldName :
             IF fieldName.st # "ok" THEN Fail(fieldName)
             ELSE With(IF match(ts, fieldName.cur, {"ASSIGN"})
                              THEN expression(ts, advance(ts, fieldName.cur))
                              ELSE Ok(fieldName.cur, Null), LAMBDA init :
                  With(consume(ts, init.cur, "SEMICOLON"), LAMBDA semi :
                     IF semi.st # "ok" THEN Fail(semi)
                     ELSE Ok(semi.cur,
                            [type |-> "FieldDeclaration", modifiers |-> modifiers,
                             annotations |-> annotations, fieldType |-> fieldType.v,
                             name |-> fieldName.v.value, initializer |-> init.v,
                             line |-> fieldType.v.line, column |-> fieldType.v.column])))))

(* Skip to next class member.                                               *)
RECURSIVE skipToNextMember(_, _)
skipToNextMember(ts, cur) ==
  IF ~match(ts, cur, {"EOF"}) /\ ~match(ts, cur, {"RBRACE"})
  THEN IF match(ts, cur, {"SEMICOLON"}) THEN advance(ts, cur)
       ELSE IF match(ts, cur, {"AT"} \cup TypeModifierStart) THEN cur
       ELSE skipToNextMember(ts, advance(ts, cur))
  ELSE cur

(* classMember's branch for a member that starts with a primitive type.     *)
primitiveMember(ts, cur, modifiers, annotations) ==
  With(skipArrayLookahead(ts, cur, 1), LAMBDA lookahead :
     IF peek(ts, cur, lookahead).type = "IDENTIFIER"
     THEN IF peek(ts, cur, lookahead + 1).type = "LPAREN"
          THEN methodDeclaration(ts, cur, modifiers, annotations)
          ELSE fieldDeclaration(ts, cur, modifiers, annotations)
     ELSE methodDeclaration(ts, cur, modifiers, annotations))

(* identifierMember without the branch that takes '(' after the type scan   *)
(* for a constructor.                                                       *)
identifierMemberNoConstructor(ts, cur, modifiers, annotations) ==
  With(typeLookahead(ts, cur), LAMBDA la :
     IF la.hang THEN Hang(cur)
     ELSE IF peek(ts, cur, la.lookahead).type = "IDENTIFIER"
     THEN IF peek(ts, cur, la.lookahead + 1).type = "LPAREN"
          THEN methodDeclaration(ts, cur, modifiers, annotations)
          ELSE fieldDeclaration(ts, cur, modifiers, annotations)
     ELSE Ok(skipToNextMember(ts, cur), Null))

(* classMember's branch for a member that starts with an identifier.        *)
identifierMember(ts, cur, modifiers, annotations) ==
  With(typeLookahead(ts, cur), LAMBDA la :
     IF la.hang THEN Hang(cur)
     ELSE IF peek(ts, cur, la.lookahead).type = "LPAREN"
     THEN constructorDeclaration(ts, cur, modifiers, annotations)
     ELSE IF peek(ts, cur, la.lookahead).type = "IDENTIFIER"
     THEN IF peek(ts, cur, la.lookahead + 1).type = "LPAREN"
          THEN methodDeclaration(ts, cur, modifiers, annotations)
          ELSE fieldDeclaration(ts, cur, modifiers, annotations)
     ELSE Ok(skipToNextMember(ts, cur), Null))

(* classMember after its annotations and modifiers.                         *)
memberFrom(ts, startPos, annotations, modifiers) ==
  CASE match(ts, modifiers.cur, {"VOID"}) ->
         methodDeclaration(ts, modifiers.cur, modifiers.v, annotations)
    [] match(ts, modifiers.cur, PrimitiveTypes) ->
         primitiveMember(ts, modifiers.cur, modifiers.v, annotations)
    [] match(ts, modifiers.cur, {"IDENTIFIER"}) ->
         identifierMember(ts, modifiers.cur, modifiers.v, annotations)
    [] OTHER ->
         Ok(IF skipToNextMember(ts, modifiers.cur) = startPos
            THEN advance(ts, startPos)
            ELSE skipToNextMember(ts, modifiers.cur), Null)

classMember(ts, startPos) ==
  With(parseAnnotations(ts, startPos), LAMBDA annotations :
     IF annotations.st # "ok" THEN Fail(annotations)
     ELSE memberFrom(ts, startPos, annotations.v, parseModifiers(ts, annotations.cur)))

(* The locals of the member loop of classBody and of enumDeclaration, with  *)
(* how the loop ended (st) and, in trace, one entry per call of             *)
(* classMember.                                                             *)
memberStart(cur) == [st |-> "ok", cur |-> cur, statements |-> <<>>, trace |-> <<>>]

(* One turn, m being what classMember did: a member that is not null is     *)
(* pushed; no exception is caught here.                                     *)
memberTurn(b, m) ==
  IF m.st # "ok" THEN [b EXCEPT !.st = m.st, !.cur = m.cur]
  ELSE [st |-> "ok", cur |-> m.cur,
        statements |-> IF IsNull(m.v) THEN b.statements ELSE Append(b.statements, m.v),
        trace |-> Append(b.trace, [fault |-> FALSE, from |-> b.cur, at |-> m.cur, to |-> m.cur])]

(* while (!match(RBRACE) && !match(EOF))                                    *)
RECURSIVE memberLoop(_, _)
memberLoop(ts, b) ==
  IF b.st = "ok" /\ ~match(ts, b.cur, {"RBRACE", "EOF"})
  THEN memberLoop(ts, memberTurn(b, classMember(ts, b.cur)))
  ELSE b

(* classBody after its loop: consume(RBRACE).                               *)
classBodyEnd(ts, ms) ==
  IF ms.st # "ok" THEN Fail(ms)
  ELSE IF match(ts, ms.cur, {"RBRACE"})
  THEN Ok(advance(ts, ms.cur), Block(ms.statements, 0, 0, ms.trace, advance(ts, ms.cur)))
  ELSE Throw(ms.cur)

classBody(ts, cur) ==
  IF ~match(ts, cur, {"LBRACE"}) THEN Throw(cur)
  ELSE classBodyEnd(ts, memberLoop(ts, memberStart(advance(ts, cur))))

-----------------------------------------------------------------------------
(* java-parser.js: type declarations and the compilation unit               *)

(* parseType (',' parseType)* after 'implements' / 'extends'.               *)
RECURSIVE typeListLoop(_, _, _)
typeListLoop(ts, cur, types) ==
  IF match(ts, cur, {"COMMA"})
  THEN With(parseType(ts, advance(ts, cur)), LAMBDA ty :
          IF ty.st # "ok" THEN Fail(ty)
          ELSE typeListLoop(ts, ty.cur, Append(types, ty.v)))
  ELSE Ok(cur, types)

typeList(ts, cur, keyword) ==
  IF match(ts, cur, {keyword})
  THEN With(parseType(ts, advance(ts, cur)), LAMBDA ty :
          IF ty.st # "ok" THEN Fail(ty)
          ELSE typeListLoop(ts, ty.cur, <<ty.v>>))
  ELSE Ok(cur, <<>>)

(* classDeclaration up to its body: the name, the superclass and the       *)
(* interfaces.                                                              *)
classHeader(ts, cur) ==
  With(consume(ts, advance(ts, cur), "IDENTIFIER"), LAMBDA name :
     IF name.st # "ok" THEN Fail(name)
     ELSE With(IF match(ts, name.cur, {"EXTENDS"})
               THEN parseType(ts, advance(ts, name.cur))
               ELSE Ok(name.cur, Null), LAMBDA superClass :
             IF superClass.st # "ok" THEN Fail(superClass)
             ELSE With(typeList(ts, superClass.cur, "IMPLEMENTS"), LAMBDA interfaces :
                     IF interfaces.st # "ok" THEN Fail(interfaces)
                     ELSE Ok(interfaces.cur, [name |-> name.v.value,
                                              superClass |-> superClass.v,
                                              interfaces |-> interfaces.v]))))

(* classDeclaration from its body on.                                       *)
classFrom(ts, classToken, h, modifiers, annotations) ==
  IF h.st # "ok" THEN Fail(h)
  ELSE With(classBody(ts, h.cur), LAMBDA body :
          IF body.st # "ok" THEN Fail(body)
          ELSE Ok(body.cur,
                  ClassDeclaration(h.v.name, modifiers, h.v.superClass,
                    h.v.interfaces, body.v, annotations,
                    classToken.line, classToken.column)))

classDeclaration(ts, cur, modifiers, annotations) ==
  classFrom(ts, currentToken(ts, cur), classHeader(ts, cur), modifiers, annotations)

RECURSIVE typeParametersLoop(_, _, _)
typeParametersLoop(ts, cur, typeParameters) ==
  IF match(ts, cur, {"COMMA"})
  THEN With(advance(ts, cur), LAMBDA c1 :
          IF match(ts, c1, {"IDENTIFIER"})
          THEN typeParametersLoop(ts, advance(ts, c1),
                 Append(typeParameters, currentToken(ts, c1).value))
          ELSE typeParametersLoop(ts, c1, typeParameters))
  ELSE Ok(cur, typeParameters)

parseTypeParameters(ts, cur) ==
  With(consume(ts, cur, "LESS_THAN"), LAMBDA lt :
     IF lt.st # "ok" THEN Fail(lt)
     ELSE With(IF match(ts, lt.cur, {"IDENTIFIER"})
                       THEN Ok(advance(ts, lt.cur), <<currentToken(ts, lt.cur).value>>)
                       ELSE Ok(lt.cur, <<>>), LAMBDA first :
          With(typeParametersLoop(ts, first.cur, first.v), LAMBDA rest :
          With(consume(ts, rest.cur, "GREATER_THAN"), LAMBDA gt :
             IF gt.st # "ok" THEN Fail(gt) ELSE Ok(gt.cur, rest.v)))))

interfaceDeclaration(ts, cur, modifiers, annotations) ==
  With(currentToken(ts, cur), LAMBDA interfaceToken :
  With(consume(ts, advance(ts, cur), "IDENTIFIER"), LAMBDA name :
     IF name.st # "ok" THEN Fail(name)
     ELSE With(IF match(ts, name.cur, {"LESS_THAN"})
                                THEN parseTypeParameters(ts, name.cur)
                                ELSE Ok(name.cur, <<>>), LAMBDA typeParameters :
             IF typeParameters.st # "ok" THEN Fail(typeParameters)
             ELSE With(typeList(ts, typeParameters.cur, "EXTENDS"), LAMBDA interfaces :
                     IF interfaces.st # "ok" THEN Fail(interfaces)
                     ELSE With(classBody(ts, interfaces.cur), LAMBDA body :
                             IF body.st # "ok" THEN Fail(body)
                             ELSE Ok(body.cur,
                                    InterfaceDeclaration(name.v.value, modifiers, interfaces.v,
                                      body.v, annotations, typeParameters.v,
                                      interfaceToken.line, interfaceToken.column)))))))

(* The constructor-argument tokens of an enum constant, up to the ')' that  *)
(* closes them.                                                             *)
RECURSIVE enumArgsLoop(_, _, _, _)
enumArgsLoop(ts, cur, paramTokens, parenCount) ==
  IF parenCount > 0 /\ ~match(ts, cur, {"EOF"})
  THEN With(IF match(ts, cur, {"LPAREN"}) THEN parenCount + 1
                     ELSE IF match(ts, cur, {"RPAREN"}) THEN parenCount - 1
                     ELSE parenCount, LAMBDA pcount :
          enumArgsLoop(ts, advance(ts, cur),
            IF pcount > 0 THEN Append(paramTokens, currentToken(ts, cur)) ELSE paramTokens,
            pcount))
  ELSE [cur |-> cur, toks |-> paramTokens]

RECURSIVE enumConstantsLoop(_, _, _)
enumConstantsLoop(ts, cur, constants) ==
  IF ~match(ts, cur, {"RBRACE"}) /\ ~match(ts, cur, {"EOF"}) /\ match(ts, cur, {"IDENTIFIER"})
  THEN With(currentToken(ts, cur), LAMBDA nameTok :
       With(advance(ts, cur), LAMBDA c1 :
       With(IF match(ts, c1, {"LPAREN"})
                   THEN enumArgsLoop(ts, advance(ts, c1), <<>>, 1)
                   ELSE [cur |-> c1, toks |-> <<>>], LAMBDA args :
       With(Append(constants,
                    [type |-> "EnumConstant", name |-> nameTok.value, parameters |-> args.toks,
                     line |-> nameTok.line, column |-> nameTok.column]), LAMBDA all :
          IF match(ts, args.cur, {"COMMA"}) THEN enumConstantsLoop(ts, advance(ts, args.cur), all)
          ELSE IF match(ts, args.cur, {"SEMICOLON"}) THEN [cur |-> advance(ts, args.cur), constants |-> all]
          ELSE enumConstantsLoop(ts, args.cur, all)))))
  ELSE [cur |-> cur, constants |-> constants]

enumDeclaration(ts, cur, modifiers, annotations) ==
  With(currentToken(ts, cur), LAMBDA enumToken :
  With(consume(ts, advance(ts, cur), "IDENTIFIER"), LAMBDA name :
     IF name.st # "ok" THEN Fail(name)
     ELSE With(typeList(ts, name.cur, "IMPLEMENTS"), LAMBDA interfaces :
             IF interfaces.st # "ok" THEN Fail(interfaces)
             ELSE With(consume(ts, interfaces.cur, "LBRACE"), LAMBDA lbrace :
                     IF lbrace.st # "ok" THEN Fail(lbrace)
                     ELSE With(enumConstantsLoop(ts, lbrace.cur, <<>>), LAMBDA cs :
                          With(memberLoop(ts, memberStart(cs.cur)), LAMBDA ms :
                             IF ms.st # "ok" THEN Fail(ms)
                             ELSE With(consume(ts, ms.cur, "RBRACE"), LAMBDA rbrace :
                                     IF rbrace.st # "ok" THEN Fail(rbrace)
                                     ELSE Ok(rbrace.cur,
                                            EnumDeclaration(name.v.value, modifiers, interfaces.v,
                                              cs.constants,
                                              Block(ms.statements, 0, 0, ms.trace, rbrace.cur),
                                              annotations, enumToken.line, enumToken.column)))))))))

(* typeDeclaration after its annotations and modifiers.                     *)
typeFrom(ts, annotations, modifiers) ==
  CASE match(ts, modifiers.cur, {"CLASS"}) ->
         classDeclaration(ts, modifiers.cur, modifiers.v, annotations)
    [] match(ts, modifiers.cur, {"INTERFACE"}) ->
         interfaceDeclaration(ts, modifiers.cur, modifiers.v, annotations)
    [] match(ts, modifiers.cur, {"ENUM"}) ->
         enumDeclaration(ts, modifiers.cur, modifiers.v, annotations)
    [] OTHER -> Throw(modifiers.cur)

typeDeclaration(ts, cur) ==
  With(parseAnnotations(ts, cur), LAMBDA annotations :
     IF annotations.st # "ok" THEN Fail(annotations)
     ELSE typeFrom(ts, annotations.v, parseModifiers(ts, annotations.cur)))

packageDeclaration(ts, cur) ==
  With(currentToken(ts, cur), LAMBDA packageToken :
  With(qualifiedName(ts, advance(ts, cur)), LAMBDA name :
     IF name.st # "ok" THEN Fail(name)
     ELSE With(consume(ts, name.cur, "SEMICOLON"), LAMBDA semi :
             IF semi.st # "ok" THEN Fail(semi)
             ELSE Ok(semi.cur, PackageDeclaration(name.v, packageToken.line, packageToken.column)))))

(* importDeclaration without the loop's look-ahead in the name: a '.' is   *)
(* always followed by a name part.                                          *)
importDeclarationGreedyName(ts, cur) ==
  With(currentToken(ts, cur), LAMBDA importToken :
  With(advance(ts, cur), LAMBDA c1 :
  With(match(ts, c1, {"STATIC"}), LAMBDA isStatic :
  With(qualifiedName(ts, IF isStatic THEN advance(ts, c1) ELSE c1), LAMBDA name :
     IF name.st # "ok" THEN Fail(name)
     ELSE With(match(ts, name.cur, {"DOT"}), LAMBDA dot :
          With(IF dot THEN advance(ts, advance(ts, name.cur)) ELSE name.cur, LAMBDA c3 :
          With(consume(ts, c3, "SEMICOLON"), LAMBDA semi :
             IF semi.st # "ok" THEN Fail(semi)
             ELSE Ok(semi.cur,
                     ImportDeclaration(
                       IF dot THEN name.v \o "." \o currentToken(ts, advance(ts, name.cur)).value
                       ELSE name.v,
                       isStatic, FALSE, importToken.line, importToken.column)))))))))

importDeclaration(ts, cur) ==
  With(currentToken(ts, cur), LAMBDA importToken :
  With(advance(ts, cur), LAMBDA c1 :
  With(match(ts, c1, {"STATIC"}), LAMBDA isStatic :
  With(qualifiedName(ts, IF isStatic THEN advance(ts, c1) ELSE c1), LAMBDA name :
     IF name.st # "ok" THEN Fail(name)
     ELSE With(match(ts, name.cur, {"DOT"}), LAMBDA dot :
          With(IF dot THEN advance(ts, name.cur) ELSE name.cur, LAMBDA c2 :
          With(dot /\ match(ts, c2, {"MULTIPLY"}), LAMBDA isWildcard :
          With(IF isWildcard THEN advance(ts, c2) ELSE c2, LAMBDA c3 :
          With(consume(ts, c3, "SEMICOLON"), LAMBDA semi :
             IF semi.st # "ok" THEN Fail(semi)
             ELSE Ok(semi.cur, ImportDeclaration(name.v, isStatic, isWildcard,
                                                 importToken.line, importToken.column)))))))))))

RECURSIVE importsLoop(_, _, _)
importsLoop(ts, cur, imports) ==
  IF match(ts, cur, {"IMPORT"})
  THEN With(importDeclaration(ts, cur), LAMBDA imp :
          IF imp.st # "ok" THEN Fail(imp)
          ELSE importsLoop(ts, imp.cur, Append(imports, imp.v)))
  ELSE Ok(cur, imports)

(* The locals of the type-declaration loop of compilationUnit, with how     *)
(* the loop ended (st).                                                     *)
typeDeclarationsStart(cur) == [st |-> "ok", cur |-> cur, typeDeclarations |-> <<>>]

(* typeDecl.modifiers = modifiers.concat(typeDecl.modifiers);               *)
(* typeDeclarations.push(typeDecl)                                          *)
pushTypeDeclaration(u, modifiers, td) ==
  IF td.st # "ok" THEN [u EXCEPT !.st = td.st, !.cur = td.cur]
  ELSE [st |-> "ok", cur |-> td.cur,
        typeDeclarations |->
          Append(u.typeDeclarations, [td.v EXCEPT !.modifiers = modifiers \o @])]

(* The turn that starts at a modifier: the modifiers are parsed, and a      *)
(* type declaration follows or one token is skipped.                        *)
modifiedTypeDeclaration(ts, u, modifiers) ==
  IF match(ts, modifiers.cur, {"CLASS", "INTERFACE", "ENUM"})
  THEN pushTypeDeclaration(u, modifiers.v, typeDeclaration(ts, modifiers.cur))
  ELSE [u EXCEPT !.cur = advance(ts, modifiers.cur)]

(* One turn of the loop.                                                    *)
typeDeclarationsTurn(ts, u) ==
  CASE match(ts, u.cur, {"CLASS", "INTERFACE", "ENUM"}) ->
         pushTypeDeclaration(u, <<>>, typeDeclaration(ts, u.cur))
    [] match(ts, u.cur, TypeModifierStart) ->
         modifiedTypeDeclaration(ts, u, parseModifiers(ts, u.cur))
    [] OTHER -> [u EXCEPT !.cur = advance(ts, u.cur)]

(* Up to n turns of the loop, the second half run on the outcome of the     *)
(* first, so that a long run of skipped tokens is evaluated without deep    *)
(* nesting.                                                                 *)
RECURSIVE typeDeclarationsTurns(_, _, _)
typeDeclarationsTurns(ts, u, n) ==
  IF u.st # "ok" \/ match(ts, u.cur, {"EOF"}) THEN u
  ELSE IF n = 1 THEN typeDeclarationsTurn(ts, u)
  ELSE typeDeclarationsTurns(ts, typeDeclarationsTurns(ts, u, n \div 2), n - (n \div 2))

(* while (!match(EOF)), as runs of 1, 2, 4, ... turns.                      *)
RECURSIVE typeDeclarationsLoop(_, _, _)
typeDeclarationsLoop(ts, u, n) ==
  IF u.st = "ok" /\ ~match(ts, u.cur, {"EOF"})
  THEN typeDeclarationsLoop(ts, typeDeclarationsTurns(ts, u, n), 2 * n)
  ELSE u

(* compilationUnit up to the type declarations: the package declaration    *)
(* and the imports.                                                         *)
compilationUnitHeader(ts, cur) ==
  With(IF match(ts, cur, {"PACKAGE"}) THEN packageDeclaration(ts, cur)
                     ELSE Ok(cur, Null), LAMBDA packageDecl :
     IF packageDecl.st # "ok" THEN Fail(packageDecl)
     ELSE With(importsLoop(ts, packageDecl.cur, <<>>), LAMBDA imports :
             IF imports.st # "ok" THEN Fail(imports)
             ELSE Ok(imports.cur, [packageDecl |-> packageDecl.v, imports |-> imports.v])))

(* compilationUnit from the type declarations on.                           *)
compilationUnitFrom(ts, h) ==
  IF h.st # "ok" THEN Fail(h)
  ELSE With(typeDeclarationsLoop(ts, typeDeclarationsStart(h.cur), 1), LAMBDA tds :
          IF tds.st # "ok" THEN Fail(tds)
          ELSE Ok(tds.cur, CompilationUnit(h.v.packageDecl, h.v.imports, tds.typeDeclarations)))

compilationUnit(ts, cur) == compilationUnitFrom(ts, compilationUnitHeader(ts, cur))

(* parser.parse(): try { return compilationUnit() } catch { return null }.   *)
(* The value returned, or a hang.                                           *)
parse(ts, cur) ==
  With(compilationUnit(ts, cur), LAMBDA r :
     IF r.st = "throw" THEN Ok(r.cur, Null) ELSE r)

-----------------------------------------------------------------------------
(* java-generator.js: class JavaGenerator.  A routine takes the node and    *)
(* this.indentLevel (lvl) and yields the text it returns; every routine     *)
(* leaves indentLevel as it found it.                                       *)

indentSize == 4

indent(lvl) == Repeat(" ", lvl * indentSize)

(* What JavaScript's string conversion yields for a node object.            *)
ObjectString == "[object Object]"

(* modifiers.forEach(mod => code += mod.name + ' ')                         *)
modifierText(modifiers) ==
  JoinStr([i \in 1..Len(modifiers) |-> modifiers[i].name \o " "], "")

(* type.name followed by '[]'.repeat(type.arrayDimensions || 1) for arrays. *)
typeText(ty) ==
  ty.name \o (IF ty.isArray
              THEN Repeat("[]", IF ty.arrayDimensions = 0 THEN 1 ELSE ty.arrayDimensions)
              ELSE "")

generateAnnotation(anno) == "@" \o anno.name

annotationLines(annotations, lvl) ==
  JoinStr([i \in 1..Len(annotations) |->
             indent(lvl) \o generateAnnotation(annotations[i]) \o "\n"], "")

parameterText(parameters) ==
  JoinStr([i \in 1..Len(parameters) |->
             typeText(parameters[i].type) \o " " \o parameters[i].name], ", ")

SpacedOperators ==
  {"ASSIGN", "PLUS", "MINUS", "MULTIPLY", "DIVIDE", "LESS_THAN", "GREATER_THAN",
   "EQUALS", "NOT_EQUALS"}

generateExpression(expr) ==
  IF IsNull(expr) THEN ""
  ELSE IF Len(expr.tokens) > 0
  THEN JoinStr([i \in 1..Len(expr.tokens) |->
         With(expr.tokens[i], LAMBDA token :
            IF token.type \in {"STRING_LITERAL", "STRING"}
            THEN "\"" \o token.value \o "\""
            ELSE (IF token.type \in SpacedOperators /\ i > 1 THEN " " ELSE "")
                 \o token.value
                 \o (IF token.type \in SpacedOperators /\ i < Len(expr.tokens) THEN " " ELSE ""))],
         "")
  ELSE "/* expression */"

(* The token rendering shared by generateWhileStatement and                 *)
(* generateIfStatement.                                                     *)
conditionText(toks) ==
  JoinStr([i \in 1..Len(toks) |->
             CASE toks[i].type = "LESS_THAN" -> " < "
               [] toks[i].type = "GREATER_THAN" -> " > "
               [] toks[i].type \in {"EQUAL", "EQUALS"} -> " == "
               [] toks[i].type = "NOT_EQUAL" -> " != "
               [] toks[i].type = "LESS_EQUAL" -> " <= "
               [] toks[i].type = "GREATER_EQUAL" -> " >= "
               [] OTHER -> toks[i].value], "")

(* generateForStatement: the tokens after the first LPAREN up to the first  *)
(* RPAREN, LPAREN tokens left out.                                          *)
RECURSIVE parenContent(_, _, _)
parenContent(toks, inParens, acc) ==
  IF Len(toks) = 0 THEN acc
  ELSE IF Head(toks).type = "LPAREN" THEN parenContent(Tail(toks), TRUE, acc)
  ELSE IF Head(toks).type = "RPAREN" THEN acc
  ELSE parenContent(Tail(toks), inParens, IF inParens THEN Append(acc, Head(toks)) ELSE acc)

forContent(toks) ==
  JoinStr([i \in 1..Len(toks) |->
             CASE toks[i].type = "SEMICOLON" -> "; "
               [] toks[i].type = "INT" -> "int "
               [] toks[i].type = "ASSIGN" -> " = "
               [] toks[i].type \in {"LT", "LESS_THAN"} -> " < "
               [] OTHER -> toks[i].value], "")

generateVariableDeclaration(stmt, lvl) ==
  indent(lvl) \o typeText(stmt.variableType) \o " " \o "undefined" \o ";\n"

generateExpressionStatement(stmt, lvl) ==
  indent(lvl) \o generateExpression(stmt.expression) \o ";\n"

generateReturnStatement(stmt, lvl) ==
  indent(lvl) \o "return"
    \o (IF IsNull(stmt.expression) THEN "" ELSE " " \o generateExpression(stmt.expression))
    \o ";\n"

RECURSIVE generateStatement(_, _)
RECURSIVE generateStatements(_, _)
RECURSIVE generateForStatement(_, _)
RECURSIVE generateWhileStatement(_, _)
RECURSIVE generateIfStatement(_, _)
RECURSIVE generateTryStatement(_, _)
RECURSIVE generateCatchBlocks(_, _)

(* statements.forEach(stmt => code += this.generateStatement(stmt)), one    *)
(* level deeper than the caller.                                            *)
generateStatements(statements, lvl) ==
  IF Len(statements) = 0 THEN ""
  ELSE generateStatement(Head(statements), lvl) \o generateStatements(Tail(statements), lvl)

(* '{\n' statements indent '}' : how the loops, if and try render a body.   *)
bracedBody(body, lvl) ==
  "{\n"
    \o (IF body.type = "Block" THEN generateStatements(body.statements, lvl + 1)
        ELSE generateStatement(body, lvl + 1))
    \o indent(lvl) \o "}"

generateForStatement(stmt, lvl) ==
  With(parenContent(stmt.tokens, FALSE, <<>>), LAMBDA content :
  With(IF Len(stmt.tokens) > 0 THEN forContent(content) ELSE "int i = 0; i < 10; i++", LAMBDA header :
  With(stmt.body, LAMBDA body :
  With(
        IF IsNull(body)
        THEN "{\n" \o indent(lvl) \o "    // TODO: Add for loop body\n" \o indent(lvl) \o "}\n"
        ELSE IF body.type = "Block"
        THEN "{\n" \o generateStatements(body.statements, lvl + 1) \o indent(lvl) \o "}\n"
        ELSE IF body.type = "ExpressionStatement"
                /\ \E i \in 1..Len(body.expression.tokens) : body.expression.tokens[i].type = "LBRACE"
        THEN With(SelectSeq(body.expression.tokens, LAMBDA t : t.type # "LBRACE"), LAMBDA statementTokens :
                "{\n"
                \o (IF Len(statementTokens) > 0
                    THEN indent(lvl + 1)
                         \o JoinStr([i \in 1..Len(statementTokens) |->
                                      IF statementTokens[i].type = "STRING"
                                      THEN "\"" \o statementTokens[i].value \o "\""
                                      ELSE statementTokens[i].value], "")
                         \o ";\n"
                    ELSE "")
                \o indent(lvl) \o "}\n")
        ELSE "\n" \o generateStatement(body, lvl + 1), LAMBDA bodyText :
     indent(lvl) \o "for (" \o header \o ") " \o bodyText))))

generateWhileStatement(stmt, lvl) ==
  indent(lvl) \o "while (" \o conditionText(stmt.condition.tokens) \o ") "
    \o (IF IsNull(stmt.body) THEN "" ELSE bracedBody(stmt.body, lvl) \o "\n")

generateIfStatement(stmt, lvl) ==
  indent(lvl) \o "if (" \o conditionText(stmt.condition.tokens) \o ") "
    \o (IF IsNull(stmt.thenStatement) THEN "" ELSE bracedBody(stmt.thenStatement, lvl))
    \o (IF IsNull(stmt.elseStatement) THEN ""
        ELSE " else " \o bracedBody(stmt.elseStatement, lvl))
    \o "\n"

generateCatchBlocks(catchBlocks, lvl) ==
  IF Len(catchBlocks) = 0 THEN ""
  ELSE With(Head(catchBlocks), LAMBDA catchBlock :
          " catch ("
          \o JoinStr([i \in 1..Len(catchBlock.parameter.tokens) |->
                        catchBlock.parameter.tokens[i].value], " ")
          \o ") {\n"
          \o generateStatements(catchBlock.body.statements, lvl + 1)
          \o indent(lvl) \o "}"
          \o generateCatchBlocks(Tail(catchBlocks), lvl))

generateTryStatement(stmt, lvl) ==
  indent(lvl) \o "try "
    \o "{\n" \o generateStatements(stmt.tryBlock.statements, lvl + 1) \o indent(lvl) \o "}"
    \o generateCatchBlocks(stmt.catchBlocks, lvl)
    \o (IF IsNull(stmt.finallyBlock) THEN ""
        ELSE " finally {\n" \o generateStatements(stmt.finallyBlock.statements, lvl + 1)
             \o indent(lvl) \o "}")
    \o "\n"

generateStatement(stmt, lvl) ==
  IF IsNull(stmt) THEN ""
  ELSE CASE stmt.type = "VariableDeclaration" -> generateVariableDeclaration(stmt, lvl)
         [] stmt.type = "ExpressionStatement" -> generateExpressionStatement(stmt, lvl)
         [] stmt.type = "ReturnStatement" -> generateReturnStatement(stmt, lvl)
         [] stmt.type = "ForStatement" -> generateForStatement(stmt, lvl)
         [] stmt.type = "WhileStatement" -> generateWhileStatement(stmt, lvl)
         [] stmt.type = "IfStatement" -> generateIfStatement(stmt, lvl)
         [] stmt.type = "TryStatement" -> generateTryStatement(stmt, lvl)
         [] OTHER -> indent(lvl) \o "// Unknown statement type: " \o stmt.type \o "\n"

generateField(field, lvl) ==
  annotationLines(field.annotations, lvl)
    \o indent(lvl) \o modifierText(field.modifiers)
    \o field.fieldType.name
    \o (IF field.fieldType.isArray THEN Repeat("[]", field.fieldType.arrayDimensions) ELSE "")
    \o " " \o field.name
    \o (IF IsNull(field.initializer) THEN "" ELSE " = " \o generateExpression(field.initializer))
    \o ";\n"

generateConstructor(constructor, lvl) ==
  annotationLines(constructor.annotations, lvl)
    \o indent(lvl) \o modifierText(constructor.modifiers)
    \o constructor.name \o "(" \o parameterText(constructor.parameters) \o ") {\n"
    \o generateStatements(constructor.body.statements, lvl + 1)
    \o indent(lvl) \o "}\n\n"

generateInterfaceMethod(method, lvl) ==
  annotationLines(method.annotations, lvl)
    \o indent(lvl)
    \o modifierText(SelectSeq(method.modifiers, LAMBDA mod : mod.name # "abstract"))
    \o typeText(method.returnType) \o " "
    \o method.name \o "(" \o parameterText(method.parameters) \o ");\n\n"

generateMethod(method, lvl) ==
  annotationLines(method.annotations, lvl)
    \o indent(lvl) \o modifierText(method.modifiers)
    \o typeText(method.returnType) \o " "
    \o method.name \o "(" \o parameterText(method.parameters) \o ") {\n"
    \o (IF IsNull(method.body) THEN "" ELSE generateStatements(method.body.statements, lvl + 1))
    \o indent(lvl) \o "}\n\n"

(* cls.body.statements.forEach(...) of generateClass: methods, constructors *)
(* and fields are rendered, any other member is left out.                   *)
RECURSIVE classMembersText(_, _)
classMembersText(members, lvl) ==
  IF Len(members) = 0 THEN ""
  ELSE With(Head(members), LAMBDA stmt :
          (CASE stmt.type = "MethodDeclaration" -> generateMethod(stmt, lvl)
             [] stmt.type = "ConstructorDeclaration" -> generateConstructor(stmt, lvl)
             [] stmt.type = "FieldDeclaration" -> generateField(stmt, lvl)
             [] OTHER -> "")
          \o classMembersText(Tail(members), lvl))

generateClass(cls, lvl) ==
  indent(lvl) \o modifierText(cls.modifiers) \o "class " \o cls.name
    \o (IF IsNull(cls.superClass) THEN "" ELSE " extends " \o ObjectString)
    \o (IF Len(cls.interfaces) > 0
        THEN " implements " \o JoinStr([i \in 1..Len(cls.interfaces) |-> ObjectString], ", ")
        ELSE "")
    \o " {\n"
    \o classMembersText(cls.body.statements, lvl + 1)
    \o "}\n"

RECURSIVE interfaceMembersText(_, _)
interfaceMembersText(members, lvl) ==
  IF Len(members) = 0 THEN ""
  ELSE With(Head(members), LAMBDA stmt :
          (CASE stmt.type = "MethodDeclaration" -> generateInterfaceMethod(stmt, lvl)
             [] stmt.type = "FieldDeclaration" -> generateField(stmt, lvl)
             [] OTHER -> "")
          \o interfaceMembersText(Tail(members), lvl))

generateInterface(iface, lvl) ==
  indent(lvl) \o modifierText(iface.modifiers) \o "interface " \o iface.name
    \o (IF Len(iface.typeParameters) > 0
        THEN "<" \o JoinStr(iface.typeParameters, ", ") \o ">" ELSE "")
    \o (IF Len(iface.interfaces) > 0
        THEN " extends " \o JoinStr([i \in 1..Len(iface.interfaces) |-> iface.interfaces[i].name], ", ")
        ELSE "")
    \o " {\n"
    \o interfaceMembersText(iface.body.statements, lvl + 1)
    \o "}\n"

enumConstantText(constant, isLast, lvl) ==
  indent(lvl) \o constant.name
    \o (IF Len(constant.parameters) > 0
        THEN "(" \o JoinStr([i \in 1..Len(constant.parameters) |->
                               IF constant.parameters[i].type \in {"STRING_LITERAL", "STRING"}
                               THEN "\"" \o constant.parameters[i].value \o "\""
                               ELSE constant.parameters[i].value], "")
                 \o ")"
        ELSE "")
    \o (IF isLast THEN "" ELSE ",")
    \o "\n"

RECURSIVE enumMembersText(_, _)
enumMembersText(members, lvl) ==
  IF Len(members) = 0 THEN ""
  ELSE With(Head(members), LAMBDA stmt :
          (CASE stmt.type = "MethodDeclaration" -> generateMethod(stmt, lvl)
             [] stmt.type = "FieldDeclaration" -> generateField(stmt, lvl)
             [] OTHER -> "")
          \o enumMembersText(Tail(members), lvl))

generateEnum(enumDecl, lvl) ==
  indent(lvl) \o modifierText(enumDecl.modifiers) \o "enum " \o enumDecl.name
    \o (IF Len(enumDecl.interfaces) > 0
        THEN " implements "
             \o JoinStr([i \in 1..Len(enumDecl.interfaces) |-> enumDecl.interfaces[i].name], ", ")
        ELSE "")
    \o " {\n"
    \o (IF Len(enumDecl.constants) > 0
        THEN JoinStr([i \in 1..Len(enumDecl.constants) |->
                        enumConstantText(enumDecl.constants[i], i = Len(enumDecl.constants), lvl + 1)],
                     "")
             \o (IF Len(enumDecl.body.statements) > 0 THEN ";\n" ELSE "")
        ELSE "")
    \o enumMembersText(enumDecl.body.statements, lvl + 1)
    \o "}\n"

generatePackage(pkg) == "package " \o pkg.packageName \o ";"

generateImport(imp) ==
  "import " \o (IF imp.isStatic THEN "static " ELSE "") \o imp.packageName
    \o (IF imp.isWildcard THEN ".*" ELSE "") \o ";"

generateCompilationUnit(ast, lvl) ==
  (IF IsNull(ast.packageDeclaration) THEN ""
   ELSE "package " \o ast.packageDeclaration.packageName \o ";\n\n")
  \o (IF Len(ast.imports) > 0
      THEN JoinStr([i \in 1..Len(ast.imports) |-> generateImport(ast.imports[i]) \o "\n"], "")
           \o "\n"
      ELSE "")
  \o JoinStr([i \in 1..Len(ast.typeDeclarations) |->
                With(ast.typeDeclarations[i], LAMBDA typeDecl :
                   CASE typeDecl.type = "ClassDeclaration" -> generateClass(typeDecl, lvl)
                     [] typeDecl.type = "InterfaceDeclaration" -> generateInterface(typeDecl, lvl)
                     [] typeDecl.type = "EnumDeclaration" -> generateEnum(typeDecl, lvl)
                     [] OTHER -> "// Unknown type declaration: " \o typeDecl.type \o "\n")],
             "")

(* new JavaGenerator(ast).generate(): the text returned, or the TypeError   *)
(* of calling this.generateBlock, which the class does not define.          *)
generate(ast) ==
  IF IsNull(ast) THEN [st |-> "ok", code |-> ""]
  ELSE CASE ast.type = "CompilationUnit" -> [st |-> "ok", code |-> generateCompilationUnit(ast, 0)]
         [] ast.type = "PackageDeclaration" -> [st |-> "ok", code |-> generatePackage(ast)]
         [] ast.type = "ImportDeclaration" -> [st |-> "ok", code |-> generateImport(ast)]
         [] ast.type = "ClassDeclaration" -> [st |-> "ok", code |-> generateClass(ast, 0)]
         [] ast.type = "InterfaceDeclaration" -> [st |-> "ok", code |-> generateInterface(ast, 0)]
         [] ast.type = "EnumDeclaration" -> [st |-> "ok", code |-> generateEnum(ast, 0)]
         [] ast.type = "MethodDeclaration" -> [st |-> "ok", code |-> generateMethod(ast, 0)]
         [] ast.type = "ConstructorDeclaration" -> [st |-> "ok", code |-> generateConstructor(ast, 0)]
         [] ast.type = "VariableDeclaration" -> [st |-> "ok", code |-> generateVariableDeclaration(ast, 0)]
         [] ast.type = "FieldDeclaration" -> [st |-> "ok", code |-> generateField(ast, 0)]
         [] ast.type = "Annotation" -> [st |-> "ok", code |-> generateAnnotation(ast)]
         [] ast.type = "ExpressionStatement" -> [st |-> "ok", code |-> generateExpressionStatement(ast, 0)]
         [] ast.type = "ReturnStatement" -> [st |-> "ok", code |-> generateReturnStatement(ast, 0)]
         [] ast.type = "Block" -> [st |-> "throw", code |-> ""]
         [] OTHER -> [st |-> "ok", code |-> "// Unknown AST node type: " \o ast.type \o "\n"]

-----------------------------------------------------------------------------
(* java-generator.js, class JavaGenerator: this.indentLevel.  Each operator *)
(* follows the indentLevel++ and indentLevel-- of one routine in the order  *)
(* the routine runs them and yields the counter the routine leaves behind,  *)
(* lvl being the counter it was entered with.                               *)

RECURSIVE levelAfterStatement(_, _)
RECURSIVE levelAfterStatements(_, _)
RECURSIVE levelAfterCatchBlocks(_, _)

(* statements.forEach(stmt => code += this.generateStatement(stmt))         *)
levelAfterStatements(statements, lvl) ==
  IF Len(statements) = 0 THEN lvl
  ELSE levelAfterStatements(Tail(statements), levelAfterStatement(Head(statements), lvl))

levelAfterBodyNoDecrement(body, lvl) ==
  IF body.type = "Block" THEN levelAfterStatements(body.statements, lvl + 1)
  ELSE levelAfterStatement(body, lvl + 1)

(* indentLevel++, the body's statements (or the one statement),             *)
(* indentLevel--: the body of a loop or a branch of an if.                  *)
levelAfterBody(body, lvl) ==
  (IF body.type = "Block" THEN levelAfterStatements(body.statements, lvl + 1)
   ELSE levelAfterStatement(body, lvl + 1)) - 1

levelAfterForStatement(stmt, lvl) ==
  IF IsNull(stmt.body) THEN lvl
  ELSE IF stmt.body.type = "Block"
  THEN levelAfterStatements(stmt.body.statements, lvl + 1) - 1
  ELSE IF stmt.body.type = "ExpressionStatement"
          /\ \E i \in 1..Len(stmt.body.expression.tokens) :
                stmt.body.expression.tokens[i].type = "LBRACE"
  THEN (lvl + 1) - 1
  ELSE levelAfterStatement(stmt.body, lvl + 1) - 1

levelAfterWhileStatement(stmt, lvl) ==
  IF IsNull(stmt.body) THEN lvl ELSE levelAfterBody(stmt.body, lvl)

levelAfterIfStatement(stmt, lvl) ==
  With(IF IsNull(stmt.thenStatement) THEN lvl ELSE levelAfterBody(stmt.thenStatement, lvl),
       LAMBDA afterThen :
          IF IsNull(stmt.elseStatement) THEN afterThen
          ELSE levelAfterBody(stmt.elseStatement, afterThen))

levelAfterCatchBlocks(catchBlocks, lvl) ==
  IF Len(catchBlocks) = 0 THEN lvl
  ELSE levelAfterCatchBlocks(Tail(catchBlocks),
         levelAfterStatements(Head(catchBlocks).body.statements, lvl + 1) - 1)

levelAfterTryStatement(stmt, lvl) ==
  With(levelAfterCatchBlocks(stmt.catchBlocks,
         levelAfterStatements(stmt.tryBlock.statements, lvl + 1) - 1),
       LAMBDA afterCatch :
          IF IsNull(stmt.finallyBlock) THEN afterCatch
          ELSE levelAfterStatements(stmt.finallyBlock.statements, afterCatch + 1) - 1)

levelAfterStatement(stmt, lvl) ==
  IF IsNull(stmt) THEN lvl
  ELSE CASE stmt.type = "ForStatement" -> levelAfterForStatement(stmt, lvl)
         [] stmt.type = "WhileStatement" -> levelAfterWhileStatement(stmt, lvl)
         [] stmt.type = "IfStatement" -> levelAfterIfStatement(stmt, lvl)
         [] stmt.type = "TryStatement" -> levelAfterTryStatement(stmt, lvl)
         [] OTHER -> lvl

(* generateMethod and generateConstructor: indentLevel++, the statements of *)
(* the body, indentLevel--, when there is a body.                           *)
levelAfterMethod(method, lvl) ==
  IF IsNull(method.body) THEN lvl
  ELSE levelAfterStatements(method.body.statements, lvl + 1) - 1

(* One member of a type body: only methods and constructors that the body   *)
(* loop of the type renders touch the counter (an interface renders its     *)
(* methods by generateInterfaceMethod, which does not).                     *)
levelAfterMember(owner, stmt, lvl) ==
  IF \/ (owner = "ClassDeclaration"
         /\ stmt.type \in {"MethodDeclaration", "ConstructorDeclaration"})
     \/ (owner = "EnumDeclaration" /\ stmt.type = "MethodDeclaration")
  THEN levelAfterMethod(stmt, lvl)
  ELSE lvl

RECURSIVE levelAfterMembers(_, _, _)
levelAfterMembers(owner, members, lvl) ==
  IF Len(members) = 0 THEN lvl
  ELSE levelAfterMembers(owner, Tail(members), levelAfterMember(owner, Head(members), lvl))

(* generateClass, generateInterface, generateEnum: indentLevel++ and        *)
(* indentLevel-- around the enum constants and around the members.          *)
levelAfterType(typeDecl, lvl) ==
  With(IF typeDecl.type = "EnumDeclaration" /\ Len(typeDecl.constants) > 0
       THEN (lvl + 1) - 1 ELSE lvl,
       LAMBDA afterConstants :
          levelAfterMembers(typeDecl.type, typeDecl.body.statements, afterConstants + 1) - 1)

RECURSIVE levelAfterTypes(_, _)
levelAfterTypes(typeDecls, lvl) ==
  IF Len(typeDecls) = 0 THEN lvl
  ELSE levelAfterTypes(Tail(typeDecls),
         IF Head(typeDecls).type
              \in {"ClassDeclaration", "InterfaceDeclaration", "EnumDeclaration"}
         THEN levelAfterType(Head(typeDecls), lvl) ELSE lvl)

(* The counter after generate(): new JavaGenerator(ast) sets it to 0.       *)
levelAfterGenerate(ast) ==
  IF IsNull(ast) THEN 0
  ELSE CASE ast.type = "CompilationUnit" -> levelAfterTypes(ast.typeDeclarations, 0)
         [] ast.type \in {"ClassDeclaration", "InterfaceDeclaration", "EnumDeclaration"} ->
              levelAfterType(ast, 0)
         [] ast.type \in {"MethodDeclaration", "ConstructorDeclaration"} ->
              levelAfterMethod(ast, 0)
         [] OTHER -> 0

-----------------------------------------------------------------------------
(* java-generator.js, class JavaCodeGenerator with its default options      *)
(* (four spaces, '\n'): the stub body of a method.                          *)

(* generateMethodBody(ast): the marker comment, then a return chosen by     *)
(* ast.returnType.name.                                                     *)
generateMethodBody(ast, lvl) ==
  indent(lvl) \o "// TODO: Implement method body" \o "\n"
    \o (IF ~IsNull(ast.returnType) /\ ast.returnType.name # "void"
        THEN indent(lvl)
             \o (CASE ast.returnType.name = "boolean" -> "return false;"
                   [] ast.returnType.name \in {"int", "long", "short", "byte"} -> "return 0;"
                   [] ast.returnType.name \in {"float", "double"} -> "return 0.0;"
                   [] ast.returnType.name = "char" -> "return '\\0';"
                   [] OTHER -> "return null;")
             \o "\n"
        ELSE "")

-----------------------------------------------------------------------------
(* The inputs: source texts put together from fragments.  A fragment is a   *)
(* piece of source text (src) with the node it stands for (node, "none"     *)
(* for a malformed one) and the name it declares.                           *)

Frag(src, node, name) == [src |-> src, node |-> node, name |-> name]

SeqsUpTo(S, n) == UNION {[1..k -> S] : k \in 0..n}

Sources(parts) == JoinStr([i \in 1..Len(parts) |-> parts[i].src], " ")

ModifierWords ==
  {"public", "private", "protected", "static", "final", "abstract",
   "synchronized", "native", "volatile", "transient"}

ModifierFrags == {Frag(w, "Modifier", w) : w \in ModifierWords}

TypeNames == {"A", "Point"}

MemberFrags ==
  {Frag("int x;", "FieldDeclaration", "x"),
   Frag("int y", "none", "y"),
   Frag("A() { }", "ConstructorDeclaration", "A"),
   Frag("void f() { }", "MethodDeclaration", "f"),
   Frag("private List<String> items = new ArrayList<>();", "FieldDeclaration", "items"),
   Frag("Map<String, List<String>> m;", "FieldDeclaration", "m"),
   Frag("List<String q;", "none", "q")}

MemberPrefixes ==
  {<<>>, <<Frag("public", "Modifier", "public")>>,
   <<Frag("@Override", "Annotation", "Override")>>,
   <<Frag("@SuppressWarnings(\"x\")", "Annotation", "SuppressWarnings"),
     Frag("private", "Modifier", "private"), Frag("static", "Modifier", "static")>>}

MemberCores ==
  {Frag("A() { }", "ConstructorDeclaration", "A"),
   Frag("A(int v, final String[] s) throws E { x = v; }", "ConstructorDeclaration", "A"),
   Frag("B() { }", "ConstructorDeclaration", "B"),
   Frag("A(", "none", "A"),
   Frag("A f() { }", "MethodDeclaration", "f"),
   Frag("A x;", "FieldDeclaration", "x"),
   Frag("A<T> y = 1;", "FieldDeclaration", "y"),
   Frag("A<T>[] h(int a);", "MethodDeclaration", "h"),
   Frag("A[] z;", "FieldDeclaration", "z"),
   Frag("int x;", "FieldDeclaration", "x"),
   Frag("int[][] f() { }", "MethodDeclaration", "f"),
   Frag("void f() { }", "MethodDeclaration", "f"),
   Frag("Map<String, List<String>> m;", "FieldDeclaration", "m"),
   Frag("Map<String, List<String> > n;", "FieldDeclaration", "n"),
   Frag("List<String q;", "none", "q"),
   Frag("java.util.List w;", "FieldDeclaration", "w")}

StatementFrags ==
  {Frag("x = 1;", "ExpressionStatement", ""),
   Frag("if x;", "none", ""),
   Frag("if (a < b) x = 1;", "IfStatement", ""),
   Frag("c = a < b;", "ExpressionStatement", ""),
   Frag("int y = 2;", "VariableDeclaration", "y"),
   Frag("List<String z;", "none", "z"),
   Frag("return 1, 2;", "none", ""),
   Frag("if ) ;", "none", "")}

Texts ==
  {"class A { String s = \"abc; }",
   "class A { char c = '\\u12'; }",
   "class # { }",
   "package a class A { }",
   "import a.b class A { }",
   "class A",
   "int x;",
   "package a.b; import java.util.*; import static x.Y; public class A { }",
   "class A extends B { }",
   "class A implements I, J { }",
   "enum E { X, Y; E() { } }",
   "class A { void f() { int a = 1, b; } }",
   "abstract class A { abstract void g(); void h() { } }",
   "class A { static { x = 1; } int y; }",
   "class A { class B { int z; } int y; }",
   "@Deprecated @Entity public class A { }",
   "@FunctionalInterface interface I { }",
   "@Deprecated enum E { X }",
   "class A { boolean a() { } byte b() { } short c() { } long e() { } float f() { } double g() { } char h() { } String i() { } int[] j() { } int k() { } }",
   "class A { void f() { s = \"hi\" + t; c = 'a'; } }",
   "enum E { X(1, \"a\"), Y; int v; int get() { return v; } }",
   "public interface I<T> extends J { void f(int a); int K = 1; }",
   "class A { } final class B { int x; }",
   "class A { B() { } }",
   "class A { public int[] g(int a) { return a; } @Override public String toString() { return s; } public A(int v) { x = v; } }",
   "class A { int f() { while (i) { i--; } for (int i = 0; i != n; i++) { s += i; } do { x--; } while (x); try { a(); } catch (E e) { } return x; } }"}

(* Dotted names for import declarations.                                    *)
ImportNames == {"a", "x.Y", "java.util", "java.util.Map.Entry"}

(* What stands around the name of an import: 'static' before, '.*' after.   *)
ImportShapes ==
  {<<>>, <<Frag("static", "Modifier", "static")>>, <<Frag(".*", "Wildcard", "")>>,
   <<Frag("static", "Modifier", "static"), Frag(".*", "Wildcard", "")>>}

(* Texts with a lexical fault, as what stands before the fault, the fault   *)
(* and what stands after it.  The fault's name is its kind: a literal that  *)
(* is not closed, a \u escape short of four hex digits, a character that    *)
(* starts no token.                                                         *)
LexPrefixes == {"", "x = ", "a;\n  "}

LexFaults ==
  {Frag("\"abc", "none", "unterminated"),
   Frag("'a", "none", "unterminated"),
   Frag("\"a\\\"", "none", "unterminated"),
   Frag("\"ab\\", "none", "unterminated"),
   Frag("\"\\u12\"", "none", "unicode"),
   Frag("'\\u'", "none", "unicode"),
   Frag("\"\\u12G4\"", "none", "unicode"),
   Frag("\"\\uu0041\"", "none", "unicode"),
   Frag("\"\\u123", "none", "unicode"),
   Frag("#", "none", "character"),
   Frag("\\", "none", "character")}

LexSuffixes == {"", " + 1;"}

(* Texts of operator characters: every run of up to MaxOps of OpChars, and  *)
(* some runs of the other operators, blanks between them.                   *)
MaxOps == 4

OpChars == {">", "=", "+", "&"}

RECURSIVE OpRuns(_)
OpRuns(n) ==
  IF n = 0 THEN {""} ELSE {r \o c : r \in OpRuns(n - 1), c \in OpChars \cup {""}}

OpTexts ==
  (OpRuns(MaxOps) \ {""})
  \cup {"<<= <<<", "!= !!=", "--- -=-", "||| |=", "*=* %=%", "? : ^~", "<=< [.]", "(,);{@}"}

(* Literals with a backslash before a character that names no escape.       *)
BadEscapes == {"\"a\\qb\"", "'\\d'", "x = \"\\w+\";"}

(* A block body of one statement more than block() takes.                   *)
LongBody == Repeat("x;", maxStatements + 1)

HasPart(g, src) == \E i \in 1..Len(g.parts) : g.parts[i].src = src

(* Types, alone and followed by the name of what they declare.              *)
TypeFrags ==
  {Frag("int", "Type", ""),
   Frag("int[][]", "Type", ""),
   Frag("java.util.List", "Type", ""),
   Frag("List<String>", "Type", ""),
   Frag("A<T>[]", "Type", ""),
   Frag("Map<K, V>", "Type", ""),
   Frag("Map<String, List<String> >", "Type", ""),
   Frag("Map<String, List<String>>", "Type", ""),
   Frag("List<? extends Number>", "Type", "")}

TypeFollowers == {Frag("", "none", ""), Frag("m;", "none", "m"), Frag("f() { }", "none", "f")}

Given(kind, name, parts) == [kind |-> kind, name |-> name, parts |-> parts]

Givens ==
  {Given("class", n, m) : n \in TypeNames, m \in SeqsUpTo(ModifierFrags, MaxMods)}
  \cup {Given("members", "A", m) : m \in SeqsUpTo(MemberFrags, MaxMembers)}
  \cup {Given("member", "A", p \o <<c>>) : p \in MemberPrefixes, c \in MemberCores}
  \cup {Given("body", "A", b) : b \in SeqsUpTo(StatementFrags, MaxStmts)}
  \cup {Given("method", "A", b) : b \in SeqsUpTo(StatementFrags, MaxStmts)}
  \cup {Given("text", "", <<Frag(t, "none", "")>>) : t \in Texts}
  \cup {Given("import", q, p) : q \in ImportNames, p \in ImportShapes}
  \cup {Given("long", "", <<Frag(LongBody, "none", "")>>)}
  \cup {Given("type", "", <<t, f>>) : t \in TypeFrags, f \in TypeFollowers}
  \cup {Given("ops", "", <<Frag(o, "none", "")>>) : o \in OpTexts}
  \cup {Given("escape", "", <<Frag(e, "none", "")>>) : e \in BadEscapes}
  \cup {Given("lex", f.name, <<Frag(p, "none", ""), f, Frag(q, "none", "")>>) :
           p \in LexPrefixes, f \in LexFaults, q \in LexSuffixes}

(* The source text of an input.                                             *)
Render(g) ==
  CASE g.kind = "class" ->
         (IF Len(g.parts) = 0 THEN "" ELSE Sources(g.parts) \o " ")
         \o "class " \o g.name \o " { }"
    [] g.kind = "members" -> "class " \o g.name \o " { " \o Sources(g.parts) \o " }"
    [] g.kind \in {"body", "long"} -> "{ " \o Sources(g.parts) \o " }"
    [] g.kind = "method" ->
         "class " \o g.name \o " { void f() { " \o Sources(g.parts) \o " } }"
    [] g.kind = "lex" -> g.parts[1].src \o g.parts[2].src \o g.parts[3].src
    [] g.kind = "import" ->
         "import " \o (IF HasPart(g, "static") THEN "static " ELSE "") \o g.name
         \o (IF HasPart(g, ".*") THEN ".*" ELSE "") \o "; class A { }"
    [] OTHER -> Sources(g.parts)

-----------------------------------------------------------------------------
(* The operations of the library as a caller sees them.                     *)

Init ==
  /\ given \in Givens
  /\ text = Render(given)
  /\ pc = "start"
  /\ lexer = NewLexer
  /\ tokens = <<>>
  /\ current = 0
  /\ result = Null
  /\ code = ""
  /\ indentLevel = 0
  /\ result2 = Null

(* new JavaLexer(text).tokenize()                                           *)
Tokenize ==
  /\ pc = "start"
  /\ \E r \in {tokenize(text, lexer)} :
        /\ tokens' = IF r.st = "ok" THEN r.toks ELSE <<>>
        /\ lexer' = r.s
        /\ pc' = IF r.st = "ok" THEN "lexed" ELSE "lexThrown"
  /\ UNCHANGED <<given, text, current, result, code, indentLevel, result2>>

(* new JavaParser(new JavaLexer(text)): the constructor tokenizes, and a    *)
(* JavaLexerError leaves it.                                                *)
NewParser ==
  /\ pc = "start"
  /\ \E r \in {tokenize(text, lexer)} :
        /\ tokens' = IF r.st = "ok" THEN r.toks ELSE <<>>
        /\ lexer' = r.s
        /\ pc' = IF r.st = "ok" THEN "ready" ELSE "newThrown"
  /\ UNCHANGED <<given, text, current, result, code, indentLevel, result2>>

(* new JavaParser(lexer) on the lexer that tokenize() was already called    *)
(* on: the constructor calls lexer.tokenize() again, from where the lexer   *)
(* stands.                                                                  *)
NewParserSameLexer ==
  /\ pc = "lexed"
  /\ \E r \in {tokenize(text, lexer)} :
        /\ tokens' = IF r.st = "ok" THEN r.toks ELSE <<>>
        /\ lexer' = r.s
        /\ pc' = IF r.st = "ok" THEN "readySameLexer" ELSE "newThrown"
  /\ UNCHANGED <<given, text, current, result, code, indentLevel, result2>>

(* parser.parse() of that parser.                                           *)
ParseSameLexer ==
  /\ pc = "readySameLexer"
  /\ \E r \in {parse(tokens, current)} :
        /\ pc' = IF r.st = "hang" THEN "hang" ELSE "parsedSameLexer"
        /\ current' = r.cur
        /\ result' = r.v
  /\ UNCHANGED <<given, text, lexer, tokens, code, indentLevel, result2>>

(* parser.parse()                                                           *)
Parse ==
  /\ pc = "ready"
  /\ \E r \in {parse(tokens, current)} :
        /\ pc' = IF r.st = "hang" THEN "hang" ELSE "parsed"
        /\ current' = r.cur
        /\ result' = r.v
  /\ UNCHANGED <<given, text, lexer, tokens, code, indentLevel, result2>>

(* JavaParser.parse(text) of index.js: lexer, parser and parser.parse()     *)
(* inside a try whose catch throws a new Error.                             *)
StaticParse ==
  /\ pc = "start"
  /\ \E l \in {tokenize(text, lexer)} :
     \E r \in {IF l.st = "ok" THEN parse(l.toks, 0) ELSE Ok(0, Null)} :
        /\ lexer' = l.s
        /\ tokens' = IF l.st = "ok" THEN l.toks ELSE <<>>
        /\ pc' = IF l.st # "ok" THEN "staticThrown"
                 ELSE IF r.st = "hang" THEN "hang" ELSE "parsed"
        /\ current' = IF l.st = "ok" THEN r.cur ELSE 0
        /\ result' = IF l.st = "ok" THEN r.v ELSE Null
  /\ UNCHANGED <<given, text, code, indentLevel, result2>>

(* parser.classMember()                                                     *)
ParseMember ==
  /\ pc = "ready"
  /\ \E r \in {classMember(tokens, current)} :
        /\ pc' = CASE r.st = "ok" -> "member"
                   [] r.st = "throw" -> "memberThrown"
                   [] OTHER -> "memberHang"
        /\ current' = r.cur
        /\ result' = r.v
  /\ UNCHANGED <<given, text, lexer, tokens, code, indentLevel, result2>>

(* parser.block()                                                           *)
ParseBlock ==
  /\ pc = "ready"
  /\ \E r \in {block(tokens, current)} :
        /\ pc' = CASE r.st = "ok" -> "block"
                   [] r.st = "throw" -> "blockThrown"
                   [] OTHER -> "blockHang"
        /\ current' = r.cur
        /\ result' = r.v
  /\ UNCHANGED <<given, text, lexer, tokens, code, indentLevel, result2>>

(* parser.parseType()                                                       *)
ParseType ==
  /\ pc = "ready"
  /\ \E r \in {parseType(tokens, current)} :
        /\ pc' = IF r.st = "ok" THEN "type" ELSE "typeThrown"
        /\ current' = r.cur
        /\ result' = r.v
  /\ UNCHANGED <<given, text, lexer, tokens, code, indentLevel, result2>>

(* JavaGenerator.generate(ast) of index.js on the AST that parse returned.  *)
Generate ==
  /\ pc = "parsed"
  /\ ~IsNull(result)
  /\ \E g \in {generate(result)} :
        /\ pc' = IF g.st = "ok" THEN "generated" ELSE "generateThrown"
        /\ code' = g.code
        /\ indentLevel' = levelAfterGenerate(result)
  /\ UNCHANGED <<given, text, lexer, tokens, current, result, result2>>

(* The nodes of a parser result a caller can hand to the generator one at   *)
(* a time (README, Partial Code Generation): the result itself, its type    *)
(* declarations (ast.typeDeclarations[i]), their members                    *)
(* (.body.statements[j]), the members' bodies (.body) and the statements of *)
(* those bodies.                                                            *)
RECURSIVE Flat(_)
Flat(seqs) == IF Len(seqs) = 0 THEN <<>> ELSE Head(seqs) \o Flat(Tail(seqs))

typeNodes(n) == IF n.type = "CompilationUnit" THEN n.typeDeclarations ELSE <<>>

memberNodes(n) ==
  IF n.type \in {"ClassDeclaration", "InterfaceDeclaration", "EnumDeclaration"}
  THEN n.body.statements ELSE <<>>

bodyNodes(n) ==
  IF n.type \in {"MethodDeclaration", "ConstructorDeclaration"} /\ ~IsNull(n.body)
  THEN <<n.body>> ELSE <<>>

MembersAt(ast, i) == memberNodes(ast.typeDeclarations[i])

statementNodes(n) == IF n.type = "Block" THEN n.statements ELSE <<>>

Each(nodes, Op(_)) == Flat([i \in 1..Len(nodes) |-> Op(nodes[i])])

typesIn(ast) == <<ast>> \o typeNodes(ast)

membersIn(ast) == typesIn(ast) \o Each(typesIn(ast), memberNodes)

bodiesIn(ast) == membersIn(ast) \o Each(membersIn(ast), bodyNodes)

Parts(ast) == bodiesIn(ast) \o Each(bodiesIn(ast), statementNodes)

(* JavaGenerator.generate(node) for one node of the parser's result.        *)
GenerateNode ==
  /\ pc \in {"parsed", "member", "block"}
  /\ ~IsNull(result)
  /\ \E i \in 1..Len(Parts(result)) :
     \E g \in {generate(Parts(result)[i])} :
        /\ result' = Parts(result)[i]
        /\ pc' = IF g.st = "ok" THEN "nodeGenerated" ELSE "nodeGenerateThrown"
        /\ code' = g.code
        /\ indentLevel' = levelAfterGenerate(Parts(result)[i])
  /\ UNCHANGED <<given, text, lexer, tokens, current, result2>>

(* An AST a caller built from a parser result by adding one node of a kind  *)
(* JavaGenerator has no case for: in place of the result (top), after its   *)
(* type declarations (type), after the members of its i-th type (member),   *)
(* or after the statements of the body of that type's j-th member           *)
(* (statement).                                                             *)
ForeignKinds ==
  [top |-> "ModuleDeclaration", type |-> "RecordDeclaration",
   member |-> "InitializerBlock", statement |-> "SwitchStatement"]

foreignNode(at) == [type |-> ForeignKinds[at]]

Place(at, i, j) == [at |-> at, i |-> i, j |-> j]

Places(ast) ==
  IF ast.type # "CompilationUnit" THEN {Place("top", 0, 0)}
  ELSE {Place("top", 0, 0), Place("type", 0, 0)}
       \cup {Place("member", i, 0) : i \in 1..Len(ast.typeDeclarations)}
       \cup UNION {{Place("statement", i, j) :
                      j \in {k \in 1..Len(MembersAt(ast, i)) :
                               bodyNodes(MembersAt(ast, i)[k]) # <<>>}} :
                   i \in 1..Len(ast.typeDeclarations)}

withForeign(ast, p) ==
  CASE p.at = "top" -> foreignNode("top")
    [] p.at = "type" ->
         [ast EXCEPT !.typeDeclarations = Append(@, foreignNode("type"))]
    [] p.at = "member" ->
         [ast EXCEPT !.typeDeclarations[p.i].body.statements =
                        Append(@, foreignNode("member"))]
    [] p.at = "statement" ->
         [ast EXCEPT !.typeDeclarations[p.i].body.statements[p.j].body.statements =
                        Append(@, foreignNode("statement"))]

(* JavaGenerator.generate(ast) on such an AST.                              *)
GenerateForeign ==
  /\ pc = "parsed"
  /\ ~IsNull(result)
  /\ \E p \in Places(result) :
     \E g \in {generate(withForeign(result, p))} :
        /\ result' = withForeign(result, p)
        /\ pc' = IF g.st = "ok" THEN "foreignGenerated" ELSE "foreignGenerateThrown"
        /\ code' = g.code
        /\ indentLevel' = levelAfterGenerate(withForeign(result, p))
  /\ UNCHANGED <<given, text, lexer, tokens, current, result2>>

(* new JavaCodeGenerator().generateMethodBody(node) for a method of the     *)
(* parser's result.                                                         *)
GenerateMethodBody ==
  /\ pc \in {"parsed", "member"}
  /\ ~IsNull(result)
  /\ \E i \in 1..Len(Parts(result)) :
        /\ Parts(result)[i].type = "MethodDeclaration"
        /\ result' = Parts(result)[i]
        /\ code' = generateMethodBody(Parts(result)[i], 0)
        /\ pc' = "stubGenerated"
  /\ UNCHANGED <<given, text, lexer, tokens, current, indentLevel, result2>>

(* JavaParser.parse(code) on the generated text.                            *)
Reparse ==
  /\ pc = "generated"
  /\ \E l \in {tokenize(code, NewLexer)} :
     \E r \in {IF l.st = "ok" THEN parse(l.toks, 0) ELSE Ok(0, Null)} :
        /\ pc' = IF l.st # "ok" THEN "reparseThrown"
                 ELSE IF r.st = "hang" THEN "reparseHang" ELSE "reparsed"
        /\ result2' = IF l.st = "ok" THEN r.v ELSE Null
  /\ UNCHANGED <<given, text, lexer, tokens, current, result, code, indentLevel>>

Next ==
  \/ Tokenize
  \/ NewParser
  \/ NewParserSameLexer
  \/ ParseSameLexer
  \/ Parse
  \/ StaticParse
  \/ ParseMember
  \/ ParseBlock
  \/ ParseType
  \/ Generate
  \/ GenerateNode
  \/ GenerateForeign
  \/ GenerateMethodBody
  \/ Reparse

Spec == Init /\ [][Next]_vars

-----------------------------------------------------------------------------
(* What an AST holds, for the properties below.                             *)

(* The members of the i-th type declaration of a compilation unit.          *)
MembersOf(ast, i) == ast.typeDeclarations[i].body.statements

(* Openers minus closers over a token span.                                 *)
Net(toks, open, close) ==
  Cardinality({i \in 1..Len(toks) : toks[i].type = open})
    - Cardinality({i \in 1..Len(toks) : toks[i].type = close})

BalancedSpan(toks) ==
  /\ Net(toks, "LPAREN", "RPAREN") = 0
  /\ Net(toks, "LBRACE", "RBRACE") = 0
  /\ Net(toks, "LBRACKET", "RBRACKET") = 0
  /\ Net(toks, "LESS_THAN", "GREATER_THAN") = 0

(* The token spans captured below a statement, a block or a member.         *)
RECURSIVE SpansOf(_)
SpansOfAll(nodes) == UNION {SpansOf(nodes[i]) : i \in 1..Len(nodes)}
SpansOf(node) ==
  CASE node.type = "null" -> {}
    [] node.type = "Expression" -> {node.tokens}
    [] node.type = "Block" -> SpansOfAll(node.statements)
    [] node.type = "ExpressionStatement" -> SpansOf(node.expression)
    [] node.type = "ReturnStatement" -> SpansOf(node.expression)
    [] node.type = "VariableDeclaration" ->
         UNION {SpansOf(node.variables[i].initializer) : i \in 1..Len(node.variables)}
    [] node.type = "IfStatement" ->
         SpansOf(node.condition) \cup SpansOf(node.thenStatement) \cup SpansOf(node.elseStatement)
    [] node.type = "WhileStatement" -> SpansOf(node.condition) \cup SpansOf(node.body)
    [] node.type = "DoWhileStatement" -> SpansOf(node.condition) \cup SpansOf(node.body)
    [] node.type = "ForStatement" -> {node.tokens} \cup SpansOf(node.body)
    [] node.type = "TryStatement" ->
         SpansOf(node.tryBlock) \cup SpansOf(node.finallyBlock)
         \cup UNION {SpansOf(node.catchBlocks[i].parameter) \cup SpansOf(node.catchBlocks[i].body) :
                       i \in 1..Len(node.catchBlocks)}
    [] node.type = "FieldDeclaration" -> SpansOf(node.initializer)
    [] node.type = "MethodDeclaration" -> SpansOf(node.body)
    [] node.type = "ConstructorDeclaration" -> SpansOf(node.body)
    [] node.type \in {"ClassDeclaration", "InterfaceDeclaration", "EnumDeclaration"} ->
         SpansOf(node.body)
    [] node.type = "CompilationUnit" -> SpansOfAll(node.typeDeclarations)
    [] OTHER -> {}

-----------------------------------------------------------------------------
(* Properties.                                                              *)

(* C1: the top-level parse entry never lets an exception reach its caller:  *)
(* for every source text, JavaParser.parse(text) returns, and so does the   *)
(* construction of the parser on which parser.parse() is called.            *)
C1_NoExceptionReachesCaller == pc \notin {"staticThrown", "newThrown"}

(* C2: whenever parse() returns, what it returns is a CompilationUnit,      *)
(* empty or partial after a syntax error, and never null.                   *)
C2_ParseReturnsCompilationUnit ==
  pc = "parsed" => result.type = "CompilationUnit"

(* C3: in a type body, a well-formed member that follows a malformed one is *)
(* in the member list of the AST that parse() returns.                      *)
C3_LaterMembersParsed ==
  (given.kind = "members" /\ pc = "parsed") =>
    \A i \in 1..Len(given.parts) :
      (/\ given.parts[i].node # "none"
       /\ \E j \in 1..(i - 1) : given.parts[j].node = "none")
      => /\ result.type = "CompilationUnit"
         /\ Len(result.typeDeclarations) = 1
         /\ \E k \in 1..Len(MembersOf(result, 1)) :
              /\ MembersOf(result, 1)[k].type = given.parts[i].node
              /\ MembersOf(result, 1)[k].name = given.parts[i].name

(* C5: parsing terminates on every token sequence: no operation of the      *)
(* parser enters a loop that never ends.                                    *)
C5_ParsingTerminates ==
  pc \notin {"hang", "memberHang", "blockHang", "reparseHang"}

(* C6: in every AST that parse() returns, every captured token span is      *)
(* balanced: parentheses, braces, brackets and angle brackets each open as  *)
(* often as they close over the span.                                       *)
C6_SpansBalanced ==
  (pc = "parsed" /\ ~IsNull(result)) =>
    \A span \in SpansOf(result) : BalancedSpan(span)

(* Where the parts of an input lie in its token sequence.                   *)
FragLen(f) == Len(tokenize(f.src, NewLexer).toks) - 1

RECURSIVE FragOffset(_, _)
FragOffset(parts, i) ==
  IF i <= 1 THEN 0 ELSE FragOffset(parts, i - 1) + FragLen(parts[i - 1])

(* The index in tokens of the '}' that closes the '{' at index 1, or 0.     *)
OwnClosingBrace(ts) ==
  LET closes == {i \in 1..Len(ts) : Net(SubSeq(ts, 1, i), "LBRACE", "RBRACE") = 0}
  IN IF Len(ts) = 0 \/ ts[1].type # "LBRACE" \/ closes = {} THEN 0
     ELSE CHOOSE i \in closes : \A j \in closes : i <= j

(* Where recovery from a fault at position at has to leave the parser: just *)
(* past the first ';' at the fault's brace and paren depth, or on the       *)
(* block's closing brace when that comes first; -1 when there is neither.   *)
RecoveryPoint(ts, at) ==
  LET semis == {i \in (at + 1)..Len(ts) :
                  /\ ts[i].type = "SEMICOLON"
                  /\ Net(SubSeq(ts, at + 1, i), "LBRACE", "RBRACE") = 0
                  /\ Net(SubSeq(ts, at + 1, i), "LPAREN", "RPAREN") = 0}
      close == OwnClosingBrace(ts)
      points == semis \cup (IF close > at THEN {close - 1} ELSE {})
  IN IF points = {} THEN -1 ELSE CHOOSE i \in points : \A j \in points : i <= j

FaultsOf(blk) == {blk.trace[k] : k \in {j \in 1..Len(blk.trace) : blk.trace[j].fault}}

(* C4: after a statement of a block fails to parse, the parser is left just *)
(* past the next ';' at the fault's nesting depth or on the block's closing *)
(* brace, the well-formed statements from there on are statements of the    *)
(* block, and the block ends at the brace that closes it.                   *)
C4_BlockRecovery ==
  (given.kind = "body" /\ pc = "block" /\ FaultsOf(result) # {}) =>
    /\ \A e \in FaultsOf(result) :
         RecoveryPoint(tokens, e.at) # -1 => e.to = RecoveryPoint(tokens, e.at)
    /\ \A e \in FaultsOf(result) : \A i \in 1..Len(given.parts) :
         (given.parts[i].node # "none" /\ 1 + FragOffset(given.parts, i) >= e.to)
         => \E k \in 1..Len(result.statements) :
              result.statements[k].type = given.parts[i].node
    /\ result.trace[Len(result.trace)].to = OwnClosingBrace(tokens) - 1
    /\ result.endCur = OwnClosingBrace(tokens)

(* The first token of a member after its annotations and modifiers.         *)
CoreStart == 1 + FragOffset(given.parts, Len(given.parts))

(* C7: a member that after its annotations and modifiers begins with an     *)
(* identifier immediately followed by '(' is parsed as a                    *)
(* ConstructorDeclaration whenever classMember returns.                     *)
C7_IdentifierParenIsConstructor ==
  (/\ given.kind = "member"
   /\ pc = "member"
   /\ tokens[CoreStart].type = "IDENTIFIER"
   /\ tokens[CoreStart + 1].type = "LPAREN")
  => result.type = "ConstructorDeclaration"

C7_Witness ==
  /\ given.kind = "member"
  /\ pc = "member"
  /\ CoreStart > 1
  /\ tokens[CoreStart].type = "IDENTIFIER"
  /\ tokens[CoreStart + 1].type = "LPAREN"
  /\ result.type = "ConstructorDeclaration"
  /\ result.name = "B"
  /\ Len(result.modifiers) = 2
  /\ Len(result.annotations) = 1

(* The classification a member's leading tokens call for: the type token,   *)
(* an optional balanced <...> span, optional [ ] pairs, the name, and then  *)
(* '(' for a method and anything else for a field.  A '>>' closes two.      *)
AngleNet(ts, i, j) ==
  LET n(ty) == Cardinality({k \in i..j : ts[k].type = ty})
  IN n("LESS_THAN") - n("GREATER_THAN") - 2 * n("RIGHT_SHIFT")
       - 3 * n("UNSIGNED_RIGHT_SHIFT")

AfterGeneric(ts, i) ==
  IF ts[i].type # "LESS_THAN" THEN i
  ELSE LET ends == {j \in i..Len(ts) : AngleNet(ts, i, j) = 0}
       IN IF ends = {} THEN 0 ELSE 1 + CHOOSE j \in ends : \A k \in ends : j <= k

RECURSIVE AfterArrays(_, _)
AfterArrays(ts, i) ==
  IF i + 1 <= Len(ts) /\ ts[i].type = "LBRACKET" /\ ts[i + 1].type = "RBRACKET"
  THEN AfterArrays(ts, i + 2) ELSE i

ExpectedMember(ts, i) ==
  IF ts[i].type = "VOID" THEN "MethodDeclaration"
  ELSE IF ts[i].type \notin PrimitiveTypes \cup {"IDENTIFIER"} THEN "none"
  ELSE LET g == AfterGeneric(ts, i + 1)
           n == AfterArrays(ts, g)
       IN IF g = 0 \/ n >= Len(ts) \/ ts[n].type # "IDENTIFIER" THEN "none"
          ELSE IF ts[n + 1].type = "LPAREN" THEN "MethodDeclaration"
          ELSE "FieldDeclaration"

(* C8: classMember classifies by lookahead: a member that starts with void  *)
(* is a method; a member that starts with a primitive or identifier type,   *)
(* an optional balanced <...> span and optional [ ] pairs before its name   *)
(* is a MethodDeclaration when '(' follows the name and a FieldDeclaration  *)
(* otherwise.                                                               *)
C8_MemberClassification ==
  (/\ given.kind = "member"
   /\ pc \in {"member", "memberHang"}
   /\ ExpectedMember(tokens, CoreStart) # "none")
  => /\ pc = "member"
     /\ result.type = ExpectedMember(tokens, CoreStart)

(* Names, modifier sets and member counts of the type declarations.         *)
Shape(ast) ==
  [i \in 1..Len(ast.typeDeclarations) |->
     LET td == ast.typeDeclarations[i]
     IN [name |-> td.name,
         modifiers |-> {td.modifiers[k].name : k \in 1..Len(td.modifiers)},
         members |-> Len(td.body.statements)]]

(* C9: for every text that parses to an AST, generating from the AST and    *)
(* parsing the generated text gives an AST with the same type-declaration   *)
(* names, modifier sets and member counts.                                  *)
C9_RoundTripKeepsShape ==
  /\ pc \notin {"generateThrown", "reparseThrown", "reparseHang"}
  /\ pc = "reparsed" => /\ ~IsNull(result2)
                        /\ Shape(result2) = Shape(result)

(* The values of the tokens of a text.                                      *)
TokenValues(t) ==
  LET toks == tokenize(t, NewLexer).toks
  IN [i \in 1..Len(toks) |-> toks[i].value]

(* C10: M class N { } parses to exactly one ClassDeclaration named N with   *)
(* the modifiers M in order and no members, and the text generated from it  *)
(* declares class N with the same modifiers and an empty body.              *)
C10_ModifiersClassRoundTrip ==
  given.kind = "class" =>
    /\ pc \in {"parsed", "generated"} =>
         /\ result.type = "CompilationUnit"
         /\ Len(result.typeDeclarations) = 1
         /\ result.typeDeclarations[1].type = "ClassDeclaration"
         /\ result.typeDeclarations[1].name = given.name
         /\ [k \in 1..Len(result.typeDeclarations[1].modifiers) |->
               result.typeDeclarations[1].modifiers[k].name]
              = [k \in 1..Len(given.parts) |-> given.parts[k].name]
         /\ MembersOf(result, 1) = <<>>
    /\ pc = "generated" => TokenValues(code) = TokenValues(text)

(* C11: for `import [static] Q[.*];` the ImportDeclaration parsed has      *)
(* isStatic true exactly when 'static' is written, isWildcard true exactly  *)
(* when the declaration ends in '.*', and the name Q without the '.*'.      *)
C11_ImportFlagsAndName ==
  (given.kind = "import" /\ pc = "parsed") =>
     /\ ~IsNull(result)
     /\ Len(result.imports) = 1
     /\ result.imports[1].type = "ImportDeclaration"
     /\ result.imports[1].isStatic = HasPart(given, "static")
     /\ result.imports[1].isWildcard = HasPart(given, ".*")
     /\ result.imports[1].packageName = given.name

C11_Witness ==
  /\ given.kind = "import" /\ pc = "parsed" /\ ~IsNull(result)
  /\ text = "import static java.util.Map.Entry.*; class A { }"
  /\ Len(result.imports) = 1
  /\ result.imports[1].isStatic /\ result.imports[1].isWildcard
  /\ result.imports[1].packageName = "java.util.Map.Entry"

(* C12: every ConstructorDeclaration of a parsed AST has the name of the    *)
(* class or enum whose body holds it, and has a body.                       *)
C12_ConstructorNamedAsItsType ==
  (pc = "parsed" /\ ~IsNull(result)) =>
     \A i \in 1..Len(result.typeDeclarations) :
        \A j \in 1..Len(MembersOf(result, i)) :
           MembersOf(result, i)[j].type = "ConstructorDeclaration" =>
              /\ MembersOf(result, i)[j].name = result.typeDeclarations[i].name
              /\ ~IsNull(MembersOf(result, i)[j].body)

(* C13: on a block of more statements than the cap, block() returns a      *)
(* Block of the statements parsed up to the cap and raises no parse error   *)
(* to its caller.                                                           *)
C13_CapTruncatesBlock ==
  (given.kind = "long" /\ pc \in {"block", "blockThrown", "blockHang"}) =>
     /\ pc = "block"
     /\ result.type = "Block"
     /\ Len(result.statements) = maxStatements

(* Line and column of the character at offset pos of a text.                *)
LineAt(t, pos) == 1 + Cardinality({i \in 0..(pos - 1) : CharAt(t, i) = "\n"})

ColumnAt(t, pos) ==
  pos + 1 - Cardinality({i \in 0..(pos - 1) :
                          \E j \in i..(pos - 1) : CharAt(t, j) = "\n"})

(* The hex digits, four at most, that stand at offset pos of a text.        *)
RECURSIVE HexRun(_, _, _)
HexRun(t, pos, n) ==
  IF n < 4 /\ CharAt(t, pos) # "" /\ CharAt(t, pos) \in HexDigits
  THEN HexRun(t, pos + 1, n + 1)
  ELSE n

(* Where the fault of a faulty text is met: the end of input for a literal  *)
(* that is not closed, the first character that is no hex digit after \u    *)
(* (the escape stands right after the opening quote), the character that    *)
(* starts no token.                                                         *)
FaultAt(g) ==
  CASE g.name = "unterminated" -> Len(Render(g))
    [] g.name = "unicode" ->
         Len(g.parts[1].src) + 3 + HexRun(g.parts[2].src, 3, 0)
    [] OTHER -> Len(g.parts[1].src)

(* C14: on a text with a literal that is not closed before the end of       *)
(* input, a \u escape without four hex digits or a character that starts    *)
(* no token, tokenize fails with an error that carries the line, column and *)
(* offset of the fault, and no tokens are returned.                         *)
C14_LexicalFaultFails ==
  (given.kind = "lex" /\ pc \in {"lexed", "lexThrown"}) =>
     /\ pc = "lexThrown"
     /\ tokens = <<>>
     /\ lexer.pos = FaultAt(given)
     /\ lexer.line = LineAt(text, lexer.pos)
     /\ lexer.column = ColumnAt(text, lexer.pos)

C14_Witness ==
  /\ given.kind = "lex" /\ pc = "lexThrown"
  /\ text = "a;\n  \"\\u12G4\" + 1;"
  /\ lexer = [pos |-> 10, line |-> 2, column |-> 8]

(* C15: a backslash before a character that is none of n t r b f \ ' " 0   *)
(* and not u, inside a string or char literal, makes tokenize fail.         *)
C15_BadEscapeFails ==
  (given.kind = "escape" /\ pc \in {"lexed", "lexThrown"}) => pc = "lexThrown"

(* The operators and punctuation of JavaTokenType, by length.               *)
OperatorTexts ==
  {">>>",
   "++", "--", "+=", "-=", "*=", "/=", "%=", "==", "!=", "<=", ">=", "&&", "||", "<<", ">>",
   "+", "-", "*", "/", "%", "=", "<", ">", "!", "&", "|", "^", "~",
   "(", ")", "{", "}", "[", "]", ";", ",", ".", ":", "?", "@"}

(* The length of the longest operator that stands at offset pos of a text.  *)
LongestAt(t, pos) ==
  IF pos + 3 <= Len(t) /\ SubSeq(t, pos + 1, pos + 3) \in OperatorTexts THEN 3
  ELSE IF pos + 2 <= Len(t) /\ SubSeq(t, pos + 1, pos + 2) \in OperatorTexts THEN 2
  ELSE 1

(* A text of operators and blanks cut into the longest operators, left to   *)
(* right.                                                                   *)
RECURSIVE Munch(_, _)
Munch(t, pos) ==
  IF pos >= Len(t) THEN <<>>
  ELSE IF CharAt(t, pos) = " " THEN Munch(t, pos + 1)
  ELSE <<SubSeq(t, pos + 1, pos + LongestAt(t, pos))>> \o Munch(t, pos + LongestAt(t, pos))

(* C16: operators are lexed by maximal munch: at every operator position    *)
(* the token is the longest operator of the token set that stands there.    *)
C16_MaximalMunch ==
  (given.kind = "ops" /\ pc \in {"lexed", "lexThrown"}) =>
     /\ pc = "lexed"
     /\ [i \in 1..(Len(tokens) - 1) |-> tokens[i].value] = Munch(text, 0)
     /\ tokens[Len(tokens)].type = "EOF"

C16_Witness ==
  /\ given.kind = "ops" /\ pc = "lexed"
  /\ text = ">>>>"
  /\ Len(tokens) = 3
  /\ tokens[1].type = "UNSIGNED_RIGHT_SHIFT"
  /\ tokens[2].type = "GREATER_THAN"


-----------------------------------------------------------------------------
(* C17: JavaGenerator.generate accepts every node of a parser result - the  *)
(* compilation unit, a type declaration, a member, a method's body Block,   *)
(* a statement - and returns text without throwing; for a body Block the    *)
(* text is the text of its statements.                                      *)
C17_GenerateAcceptsAnyNode ==
  (pc \in {"nodeGenerated", "nodeGenerateThrown"}) =>
     /\ pc = "nodeGenerated"
     /\ result.type = "Block" => code = generateStatements(result.statements, 0)


-----------------------------------------------------------------------------
(* C18: a node of a kind the generator has no case for - as the top-level   *)
(* node, as a type declaration, as a member of a type body or as a          *)
(* statement - is rendered as a placeholder comment naming its kind; the    *)
(* generator neither throws nor leaves the node out of the text.            *)
Contains(s, sub) ==
  \E i \in 0..(Len(s) - Len(sub)) : SubSeq(s, i + 1, i + Len(sub)) = sub

ForeignKindIn(ast) ==
  IF ast.type # "CompilationUnit" THEN ast.type
  ELSE IF \E i \in 1..Len(ast.typeDeclarations) :
             ast.typeDeclarations[i].type = ForeignKinds.type
       THEN ForeignKinds.type
  ELSE IF \E i \in 1..Len(ast.typeDeclarations) :
          \E j \in 1..Len(MembersAt(ast, i)) :
             MembersAt(ast, i)[j].type = ForeignKinds.member
       THEN ForeignKinds.member
  ELSE ForeignKinds.statement

C18_UnknownKindGetsPlaceholder ==
  (pc \in {"foreignGenerated", "foreignGenerateThrown"}) =>
     /\ pc = "foreignGenerated"
     /\ Contains(code, "// Unknown")
     /\ Contains(code, ForeignKindIn(result))


-----------------------------------------------------------------------------
(* C19: each statement kind the parser puts into a Block has a renderer:    *)
(* the text generated for a method whose body holds a statement of one of   *)
(* these kinds never carries the unknown-statement comment for that kind.   *)
StatementKinds ==
  {"VariableDeclaration", "ExpressionStatement", "ReturnStatement", "IfStatement",
   "ForStatement", "WhileStatement", "DoWhileStatement", "TryStatement"}

KindsIn(statements) == {statements[i].type : i \in 1..Len(statements)}

C19_EveryStatementKindRendered ==
  (/\ pc = "nodeGenerated"
   /\ result.type = "MethodDeclaration"
   /\ ~IsNull(result.body))
  => \A k \in StatementKinds \cap KindsIn(result.body.statements) :
        ~Contains(code, "// Unknown statement type: " \o k)


-----------------------------------------------------------------------------
(* C20: the text generated for a VariableDeclaration of the parser holds    *)
(* the type, then every declared name in declaration order, each followed   *)
(* by its initializer when it has one.                                      *)
RECURSIVE InOrder(_, _)
InOrder(s, subs) ==
  IF Len(subs) = 0 THEN TRUE
  ELSE \E i \in 0..(Len(s) - Len(Head(subs))) :
          /\ SubSeq(s, i + 1, i + Len(Head(subs))) = Head(subs)
          /\ InOrder(SubSeq(s, i + Len(Head(subs)) + 1, Len(s)), Tail(subs))

DeclaratorParts(v) ==
  IF IsNull(v.initializer) THEN <<v.name>>
  ELSE <<v.name, generateExpression(v.initializer)>>

C20_DeclarationNamesEveryVariable ==
  (pc = "nodeGenerated" /\ result.type = "VariableDeclaration") =>
     InOrder(code, <<typeText(result.variableType) \o " ">>
                     \o Each(result.variables, DeclaratorParts))


-----------------------------------------------------------------------------
(* C21: a parsed method has no body exactly when its signature ends with    *)
(* ';', and the generator renders a method without a body as a signature    *)
(* ended by ';' with no braces, a method with a body with braces.           *)
EndsWith(s, sub) ==
  Len(s) >= Len(sub) /\ SubSeq(s, Len(s) - Len(sub) + 1, Len(s)) = sub

C21_BodylessMethodEndsWithSemicolon ==
  (pc = "nodeGenerated" /\ result.type = "MethodDeclaration") =>
     /\ given.kind = "member" => (IsNull(result.body) <=> EndsWith(text, ";"))
     /\ IsNull(result.body) <=> ~Contains(code, "{")
     /\ IsNull(result.body) => Contains(code, ");")


-----------------------------------------------------------------------------
(* C22: the indentation counter is back at its value before the call after  *)
(* every generate call and after every nested render of a type, a method,   *)
(* a constructor, a body or a statement, whatever level the render was      *)
(* entered with.                                                            *)
LevelAfterRender(n, l) ==
  CASE n.type \in {"ClassDeclaration", "InterfaceDeclaration", "EnumDeclaration"} ->
         levelAfterType(n, l)
    [] n.type \in {"MethodDeclaration", "ConstructorDeclaration"} -> levelAfterMethod(n, l)
    [] n.type = "Block" -> levelAfterStatements(n.statements, l)
    [] n.type = "CompilationUnit" -> levelAfterTypes(n.typeDeclarations, l)
    [] OTHER -> levelAfterStatement(n, l)

C22_IndentLevelRestored ==
  (pc \in {"generated", "nodeGenerated", "foreignGenerated"}) =>
     /\ indentLevel = 0
     /\ \A i \in 1..Len(Parts(result)) : \A l \in 0..MaxLevel :
           LevelAfterRender(Parts(result)[i], l) = l

C22_Witness ==
  /\ pc = "generated"
  /\ indentLevel = 0
  /\ Contains(code, "\n        while (i) {\n            i--;\n        }\n        for (")
  /\ Contains(code, "\n        }\n        return x;\n    }\n")


-----------------------------------------------------------------------------
(* C23: in the text generated for an expression every string-literal token  *)
(* stands between double quotes and every char-literal token between        *)
(* single quotes.                                                           *)
C23_LiteralsKeepTheirQuotes ==
  (pc = "nodeGenerated" /\ result.type = "ExpressionStatement") =>
     \A i \in 1..Len(result.expression.tokens) :
        /\ result.expression.tokens[i].type = "STRING" =>
              Contains(code, "\"" \o result.expression.tokens[i].value \o "\"")
        /\ result.expression.tokens[i].type = "CHAR" =>
              Contains(code, "'" \o result.expression.tokens[i].value \o "'")


-----------------------------------------------------------------------------
(* C24: a stub method body is the marker comment followed by the default    *)
(* return of the return type: false for boolean, 0 for byte, short, int     *)
(* and long, 0.0 for float and double, '\0' for char, null for every        *)
(* object type and every array type, and no return for void.                *)
DefaultReturn(ty) ==
  CASE ty.isArray -> "return null;\n"
    [] ty.name = "void" -> ""
    [] ty.name = "boolean" -> "return false;\n"
    [] ty.name \in {"byte", "short", "int", "long"} -> "return 0;\n"
    [] ty.name \in {"float", "double"} -> "return 0.0;\n"
    [] ty.name = "char" -> "return '\\0';\n"
    [] OTHER -> "return null;\n"

C24_StubReturnsDefaultOfType ==
  (pc = "stubGenerated") =>
     code = "// TODO: Implement method body\n" \o DefaultReturn(result.returnType)


-----------------------------------------------------------------------------
(* C25: the static JavaParser.parse(javaCode) throws an Error when the      *)
(* source cannot be parsed: on a lexical error and on a syntax error that   *)
(* stops the parser it raises an Error and returns no value.                *)
C25_FailedStaticParseThrows ==
  [][StaticParse =>
       /\ tokenize(text, lexer).st # "ok" => pc' = "staticThrown"
       /\ (/\ tokenize(text, lexer).st = "ok"
           /\ compilationUnit(tokenize(text, lexer).toks, 0).st = "throw")
          => pc' = "staticThrown"]_vars


-----------------------------------------------------------------------------
(* C26: the annotations written before a top-level class, interface or      *)
(* enum are, in source order, the annotations of that declaration in the    *)
(* AST.                                                                     *)
TypeKeywords == {"CLASS", "INTERFACE", "ENUM"}

(* The names after the '@' marks among the first n tokens.                  *)
RECURSIVE AnnotationNames(_, _)
AnnotationNames(toks, n) ==
  IF n < 2 THEN <<>>
  ELSE AnnotationNames(toks, n - 1)
       \o (IF toks[n - 1].type = "AT" /\ toks[n].type = "IDENTIFIER"
           THEN <<toks[n].value>> ELSE <<>>)

(* Where the first type keyword stands, 0 when there is none.               *)
FirstTypeKeyword(toks) ==
  IF \E i \in 1..Len(toks) : toks[i].type \in TypeKeywords
  THEN CHOOSE i \in 1..Len(toks) :
         /\ toks[i].type \in TypeKeywords
         /\ \A j \in 1..(i - 1) : toks[j].type \notin TypeKeywords
  ELSE 0

C26_TopLevelAnnotationsKept ==
  (/\ pc = "parsed"
   /\ Len(tokens) > 0
   /\ tokens[1].type = "AT"
   /\ FirstTypeKeyword(tokens) > 0)
  => /\ ~IsNull(result)
     /\ Len(result.typeDeclarations) >= 1
     /\ [i \in 1..Len(result.typeDeclarations[1].annotations) |->
           result.typeDeclarations[1].annotations[i].name]
          = AnnotationNames(tokens, FirstTypeKeyword(tokens))


-----------------------------------------------------------------------------
(* C27: a parser made from a lexer that has already tokenized holds the     *)
(* token sequence of the text, and its parse() returns the AST that parsing *)
(* the text with a fresh lexer returns.                                     *)
C27_SameLexerSameAst ==
  (pc = "parsedSameLexer") =>
     /\ tokens = tokenize(text, NewLexer).toks
     /\ result = parse(tokenize(text, NewLexer).toks, 0).v


-----------------------------------------------------------------------------
(* C28: an AST node carries the line and column of the first token of its   *)
(* construct: a member or a class written with annotations or modifiers     *)
(* carries the position of the first of them, and every Block and           *)
(* CompilationUnit carries a position of the text (lines and columns count  *)
(* from 1).                                                                 *)
AtFirstToken(node, toks) ==
  node.line = toks[1].line /\ node.column = toks[1].column

HasPosition(node) == node.line >= 1 /\ node.column >= 1

C28_NodesCarryFirstTokenPosition ==
  /\ (given.kind = "member" /\ pc = "member" /\ ~IsNull(result)) =>
        AtFirstToken(result, tokens)
  /\ (pc = "parsed" /\ ~IsNull(result)) =>
        /\ HasPosition(result)
        /\ \A i \in 1..Len(result.typeDeclarations) :
              HasPosition(result.typeDeclarations[i].body)
        /\ given.kind = "class" => AtFirstToken(result.typeDeclarations[1], tokens)


-----------------------------------------------------------------------------
(* C29: parseType on a type with well-nested generic arguments returns,     *)
(* stands just after the type - after the matching closing angle bracket    *)
(* and the array brackets - and stores a name that lexes to the tokens of   *)
(* the type as written.                                                     *)
TypeAsStored(ty) == ty.name \o Repeat("[]", ty.arrayDimensions)

C29_GenericsCapturedVerbatim ==
  (given.kind = "type" /\ pc \in {"type", "typeThrown"}) =>
     /\ pc = "type"
     /\ current = FragLen(given.parts[1])
     /\ TokenValues(TypeAsStored(result)) = TokenValues(given.parts[1].src)


-----------------------------------------------------------------------------
(* C30: when classMember skips members it cannot classify, every call of    *)
(* classMember ends at brace depth zero of the type body, and the body      *)
(* ends at the brace that matches its opening brace.                        *)

(* The index in toks of the '}' that matches the '{' at index i, or 0.      *)
MatchingBrace(toks, i) ==
  IF \E j \in (i + 1)..Len(toks) : Net(SubSeq(toks, i, j), "LBRACE", "RBRACE") = 0
  THEN CHOOSE j \in (i + 1)..Len(toks) :
         /\ Net(SubSeq(toks, i, j), "LBRACE", "RBRACE") = 0
         /\ \A k \in (i + 1)..(j - 1) : Net(SubSeq(toks, i, k), "LBRACE", "RBRACE") # 0
  ELSE 0

(* A class whose body opens at the third token and closes in the text, and  *)
(* in whose body classMember returned null at least once.                   *)
SkippedInFirstClass ==
  /\ pc = "parsed"
  /\ ~IsNull(result)
  /\ Len(tokens) >= 3
  /\ tokens[1].type = "CLASS"
  /\ tokens[3].type = "LBRACE"
  /\ MatchingBrace(tokens, 3) # 0
  /\ Len(result.typeDeclarations) >= 1
  /\ Len(result.typeDeclarations[1].body.trace)
       > Len(result.typeDeclarations[1].body.statements)

C30_SkipKeepsBraceDepth ==
  SkippedInFirstClass =>
     /\ \A k \in 1..Len(result.typeDeclarations[1].body.trace) :
           Net(SubSeq(tokens, 4, result.typeDeclarations[1].body.trace[k].at),
               "LBRACE", "RBRACE") = 0
     /\ result.typeDeclarations[1].body.endCur = MatchingBrace(tokens, 3)

====
